---- MODULE Spec2Model ----
(***************************************************************************)
(* Model of the hands reconciliation engine: the hook adapters             *)
(* (lib/adapters.js), the document merge operations and the hook sync      *)
(* (lib/merger.js), the installed-state tracker (lib/tracker.js), the      *)
(* status classification (lib/status.js) and the sync run of the CLI       *)
(* (cli.js, class Hands).                                                  *)
(***************************************************************************)
EXTENDS Integers, Sequences, FiniteSets, TLC

VARIABLES
    settings,      \* .claude/settings.json (Claude Code hooks document)
    cursorHooks,   \* .cursor/hooks.json (Cursor hooks document)
    mcpFile,       \* .claude/config.json (MCP servers document)
    targets,       \* the target paths of the FILE_BASED components
    backups,       \* the sibling paths <target>.local
    tracker,       \* .claude/.rules4code-meta.json, the installed records
    catalog,       \* the components found under rules/.claude
    env,           \* process.env
    lastOp,        \* the last operation applied and its arguments
    before         \* the state the last operation started from

vars == <<settings, cursorHooks, mcpFile, targets, backups, tracker, catalog, env,
          lastOp, before>>

\* the state that the document operations of SpecMerge do not touch
runVars == <<mcpFile, targets, backups, tracker, catalog, env>>

-----------------------------------------------------------------------------
(* Bounds of the model *)

\* longest event array in a document found on disk before the first operation
MaxInitEntries == 2
\* most trigger entries in one canonical hook config
MaxEntries == 2

-----------------------------------------------------------------------------
(* JSON values *)

\* an object key that is not there (undefined)
NoKey == "<absent>"
\* an entry that carries no _hands marker
NoMarker == "<unmarked>"

\* an optional key is a sequence of at most one value
Absent == <<>>
Present(v) == <<v>>
Has(opt) == Len(opt) > 0
Get(opt) == opt[1]

BoundedSeq(S, n) == UNION {[1..k -> S] : k \in 0..n}

\* the object {} : no version, no hooks, no other key
EmptyObject == [version |-> Absent, hooks |-> Absent, other |-> Absent]

NoFile == [exists |-> FALSE, json |-> EmptyObject]

\* a file whose content JSON.parse rejects
UnparsableFile == [exists |-> TRUE, unparsable |-> TRUE]

parses(file) == "json" \in DOMAIN file

readJsonFile(file) == IF file.exists /\ parses(file) THEN file.json ELSE EmptyObject

writeJsonFile(content) == [exists |-> TRUE, json |-> content]

-----------------------------------------------------------------------------
(* lib/adapters.js *)

Tools == {"claude", "cursor"}

EVENT_MAP ==
    [stop         |-> [claude |-> "Stop",         cursor |-> "stop"],
     preToolUse   |-> [claude |-> "PreToolUse",   cursor |-> "preToolUse"],
     postToolUse  |-> [claude |-> "PostToolUse",  cursor |-> "postToolUse"],
     notification |-> [claude |-> "Notification", cursor |-> NoKey],
     subagentStop |-> [claude |-> "SubagentStop", cursor |-> "subagentStop"],
     sessionStart |-> [claude |-> "SessionStart", cursor |-> "sessionStart"],
     sessionEnd   |-> [claude |-> "SessionEnd",   cursor |-> "sessionEnd"]]

\* EVENT_MAP[event]?.tool, NoKey when it is undefined or null
MappedEvent(event, tool) ==
    IF event \in DOMAIN EVENT_MAP THEN EVENT_MAP[event][tool] ELSE NoKey

\* mutation: no event is skipped
SupportedEventsAll(config, tool) == DOMAIN config

\* the canonical events of config that the tool has a name for
SupportedEvents(config, tool) ==
    {e \in DOMAIN config : MappedEvent(e, tool) # NoKey}

\* the canonical event a tool's event name stands for
CanonicalOf(config, tool, mapped) ==
    CHOOSE e \in SupportedEvents(config, tool) : MappedEvent(e, tool) = mapped

\* entry.matcher || '*'
MatcherOrDefault(entry) ==
    IF entry.matcher = NoKey \/ entry.matcher = "" THEN "*" ELSE entry.matcher

\* the keys of matcherGroups in insertion order
RECURSIVE MatcherKeys(_)
MatcherKeys(entries) ==
    IF entries = <<>> THEN <<>>
    ELSE LET front == MatcherKeys(SubSeq(entries, 1, Len(entries) - 1))
             m     == MatcherOrDefault(entries[Len(entries)])
         IN  IF \E i \in 1..Len(front) : front[i] = m
             THEN front ELSE Append(front, m)

\* matcherGroups[matcher]: the commands pushed for one matcher, in entry order
RECURSIVE GroupHooks(_, _)
GroupHooks(entries, matcher) ==
    IF entries = <<>> THEN <<>>
    ELSE LET rest == GroupHooks(Tail(entries), matcher)
         IN  IF MatcherOrDefault(Head(entries)) = matcher
             THEN <<[type |-> "command", command |-> Head(entries).command]>> \o rest
             ELSE rest

\* mutation: every entry gets a group of its own
ClaudeGroupsPerEntry(entries) ==
    [i \in 1..Len(entries) |->
        [matcher |-> MatcherOrDefault(entries[i]),
         hooks   |-> <<[type |-> "command", command |-> entries[i].command]>>,
         hands   |-> NoKey]]

ClaudeGroups(entries) ==
    LET keys == MatcherKeys(entries)
    IN  [i \in 1..Len(keys) |->
            [matcher |-> keys[i], hooks |-> GroupHooks(entries, keys[i]), hands |-> NoKey]]

toClaudeCode(canonicalConfig) ==
    LET mappedNames == {MappedEvent(e, "claude") : e \in SupportedEvents(canonicalConfig, "claude")}
    IN  [m \in mappedNames |->
            ClaudeGroups(canonicalConfig[CanonicalOf(canonicalConfig, "claude", m)])]

\* mutation: the matcher is copied whenever the entry has one
CursorEntryKeepsDefault(entry) ==
    [command |-> entry.command,
     matcher |-> IF entry.matcher # NoKey /\ entry.matcher # "" THEN entry.matcher ELSE NoKey,
     hands   |-> NoKey]

CursorEntry(entry) ==
    [command |-> entry.command,
     matcher |-> IF entry.matcher # NoKey /\ entry.matcher # "" /\ entry.matcher # "*"
                 THEN entry.matcher ELSE NoKey,
     hands   |-> NoKey]

toCursor(canonicalConfig) ==
    LET mappedNames == {MappedEvent(e, "cursor") : e \in SupportedEvents(canonicalConfig, "cursor")}
    IN  [m \in mappedNames |->
            LET entries == canonicalConfig[CanonicalOf(canonicalConfig, "cursor", m)]
            IN  [i \in 1..Len(entries) |-> CursorEntry(entries[i])]]

-----------------------------------------------------------------------------
(* lib/merger.js: hook documents *)

\* mutation: the handler is written without its marker
MarkedHandlerUnmarked(handler, hookName) == handler

\* { ...handler, _hands: hookName }
MarkedHandler(handler, hookName) == [handler EXCEPT !.hands = hookName]

\* array.findIndex(h => h._hands === hookName), 0 when there is none
findIndex(array, hookName) ==
    IF \E i \in 1..Len(array) : array[i].hands = hookName
    THEN CHOOSE i \in 1..Len(array) :
            /\ array[i].hands = hookName
            /\ \A j \in 1..(i - 1) : array[j].hands # hookName
    ELSE 0

\* mutation: every handler is pushed, an existing entry of the owner is kept
mergeHandlerAlwaysPush(array, hookName, handler) ==
    Append(array, [handler EXCEPT !.hands = hookName])

\* the body of the loop over handlerArray: replace the owner's entry or push
mergeHandler(array, hookName, handler) ==
    LET existingIndex == findIndex(array, hookName)
    IN  IF existingIndex > 0
        THEN [array EXCEPT ![existingIndex] = MarkedHandler(handler, hookName)]
        ELSE Append(array, MarkedHandler(handler, hookName))

RECURSIVE mergeHandlers(_, _, _)
mergeHandlers(array, hookName, handlers) ==
    IF handlers = <<>> THEN array
    ELSE mergeHandlers(mergeHandler(array, hookName, Head(handlers)), hookName, Tail(handlers))

\* the loop over Object.entries(hookConfig)
mergeEvents(hooks, hookName, hookConfig) ==
    [e \in (DOMAIN hooks) \cup (DOMAIN hookConfig) |->
        IF e \in DOMAIN hookConfig
        THEN mergeHandlers(IF e \in DOMAIN hooks THEN hooks[e] ELSE <<>>,
                           hookName, hookConfig[e])
        ELSE hooks[e]]

mergeHook(targetFile, hookName, hookConfig) ==
    LET json  == readJsonFile(targetFile)
        hooks == IF Has(json.hooks) THEN Get(json.hooks) ELSE <<>>
    IN  writeJsonFile([json EXCEPT !.hooks = Present(mergeEvents(hooks, hookName, hookConfig))])

\* if (!config.version) config.version = 1
DefaultVersion(version) ==
    IF ~Has(version) \/ Get(version) = 0 THEN Present(1) ELSE version

mergeHookCursor(targetFile, hookName, hookConfig) ==
    LET json  == readJsonFile(targetFile)
        hooks == IF Has(json.hooks) THEN Get(json.hooks) ELSE <<>>
    IN  writeJsonFile([json EXCEPT
            !.version = DefaultVersion(json.version),
            !.hooks   = Present(mergeEvents(hooks, hookName, hookConfig))])

\* mutation: filter(h => h._hands && h._hands !== hookName) drops unmarked entries
FilterOwnerDropsUnmarked(array, hookName) ==
    SelectSeq(array, LAMBDA h : h.hands # hookName /\ h.hands # NoMarker)

\* array.filter(h => h._hands !== hookName)
FilterOwner(array, hookName) ==
    SelectSeq(array, LAMBDA h : h.hands # hookName)

\* mutation: the arrays left empty are not deleted
removeFromEventsKeepsEmpty(hooks, hookName) ==
    [e \in DOMAIN hooks |-> SelectSeq(hooks[e], LAMBDA h : h.hands # hookName)]

\* the loop over Object.keys(settings.hooks): filter, then delete empty arrays
removeFromEvents(hooks, hookName) ==
    LET kept == {e \in DOMAIN hooks : FilterOwner(hooks[e], hookName) # <<>>}
    IN  [e \in kept |-> FilterOwner(hooks[e], hookName)]

removeHook(targetFile, hookName) ==
    LET json == readJsonFile(targetFile)
    IN  IF ~Has(json.hooks) THEN targetFile
        ELSE writeJsonFile([json EXCEPT
                !.hooks = Present(removeFromEvents(Get(json.hooks), hookName))])

removeHookCursor(targetFile, hookName) ==
    LET json == readJsonFile(targetFile)
    IN  IF ~Has(json.hooks) THEN targetFile
        ELSE writeJsonFile([json EXCEPT
                !.hooks = Present(removeFromEvents(Get(json.hooks), hookName))])

\* settings.hooks ?? {}
getHooks(targetFile) ==
    LET json == readJsonFile(targetFile)
    IN  IF Has(json.hooks) THEN Get(json.hooks) ELSE <<>>

getHooksCursor(targetFile) ==
    LET json == readJsonFile(targetFile)
    IN  IF Has(json.hooks) THEN Get(json.hooks) ELSE <<>>

hasHook(targetFile, hookName) ==
    LET hooks == getHooks(targetFile)
    IN  \E e \in DOMAIN hooks : \E i \in 1..Len(hooks[e]) : hooks[e][i].hands = hookName

hasHookCursor(targetFile, hookName) ==
    LET hooks == getHooksCursor(targetFile)
    IN  \E e \in DOMAIN hooks : \E i \in 1..Len(hooks[e]) : hooks[e][i].hands = hookName

-----------------------------------------------------------------------------
(* Inputs of the document operations *)

HookNames == {"hookA", "hookB"}

\* canonical trigger entries: matcher omitted, the default, or a tool name
CanonEntries == [matcher : {NoKey, "*", "Bash"}, command : {"c1", "c2"}]

\* trigger entries used where only the number and the identity of entries matter
MergeEntrySet == [matcher : {"*", "Bash"}, command : {"c1"}]

TotalEntries(config) ==
    LET RECURSIVE Sum(_)
        Sum(S) == IF S = {} THEN 0
                  ELSE LET e == CHOOSE x \in S : TRUE
                       IN  Len(config[e]) + Sum(S \ {e})
    IN  Sum(DOMAIN config)

\* canonical configs over the given events and entries, MaxEntries entries in all
ConfigsOver(events, entries) ==
    {c \in UNION {[D -> BoundedSeq(entries, MaxEntries)] : D \in SUBSET events} :
        TotalEntries(c) <= MaxEntries}

MergeConfigs == ConfigsOver({"stop", "notification"}, MergeEntrySet)

\* entries a document holds before the first operation: the user's own
\* (unmarked) and entries marked by an earlier installation
ClaudeInitEntries ==
    {[matcher |-> "*", hooks |-> <<[type |-> "command", command |-> "u"]>>, hands |-> h] :
        h \in HookNames \cup {NoMarker}}

CursorInitEntries ==
    {[command |-> "u", matcher |-> NoKey, hands |-> h] : h \in HookNames \cup {NoMarker}}

InitFiles(events, entries, versions) ==
    {NoFile} \cup
    {writeJsonFile([version |-> v, hooks |-> h, other |-> o]) :
        v \in versions,
        h \in {Absent} \cup
              {Present(m) : m \in UNION {[D -> BoundedSeq(entries, MaxInitEntries)] :
                                            D \in SUBSET events}},
        o \in {Absent, Present("user")}}

ClaudeInitFiles == InitFiles({"Stop", "Notification"}, ClaudeInitEntries, {Absent})

CursorInitFiles ==
    InitFiles({"stop", "preToolUse"}, CursorInitEntries, {Absent, Present(0), Present(1)})

-----------------------------------------------------------------------------
(* SpecMerge: the document operations of lib/merger.js, each applied to a
   hooks document as it may be found on disk. The two documents share no
   state, so a behaviour exercises the document of the tool chosen
   initially: one operation on it, and for a merge the same merge once
   more (the re-install of an unchanged hook). *)

TargetDoc == IF lastOp.tool = "claude" THEN settings ELSE cursorHooks

InitMerge ==
    /\ \E tool \in Tools :
          /\ lastOp = [op |-> "init", name |-> NoKey, config |-> <<>>, tool |-> tool]
          /\ IF tool = "claude"
             THEN settings \in ClaudeInitFiles /\ cursorHooks = NoFile
             ELSE settings = NoFile /\ cursorHooks \in CursorInitFiles
    /\ before = NoFile
    /\ mcpFile = NoFile /\ targets = <<>> /\ backups = <<>> /\ tracker = <<>>
    /\ catalog = <<>> /\ env = <<>>

MergeHook(hookName, canonical) ==
    \E hookConfig \in {toClaudeCode(canonical)} :
        /\ lastOp.op = "init" /\ lastOp.tool = "claude"
        /\ before' = settings
        /\ settings' = mergeHook(settings, hookName, hookConfig)
        /\ lastOp' = [op |-> "merge", name |-> hookName, config |-> hookConfig,
                      tool |-> "claude"]
        /\ UNCHANGED <<cursorHooks, runVars>>

RemoveHook(hookName) ==
    /\ lastOp.op = "init" /\ lastOp.tool = "claude"
    /\ before' = settings
    /\ settings' = removeHook(settings, hookName)
    /\ lastOp' = [op |-> "remove", name |-> hookName, config |-> <<>>, tool |-> "claude"]
    /\ UNCHANGED <<cursorHooks, runVars>>

MergeHookCursor(hookName, canonical) ==
    \E hookConfig \in {toCursor(canonical)} :
        /\ lastOp.op = "init" /\ lastOp.tool = "cursor"
        /\ before' = cursorHooks
        /\ cursorHooks' = mergeHookCursor(cursorHooks, hookName, hookConfig)
        /\ lastOp' = [op |-> "merge", name |-> hookName, config |-> hookConfig,
                      tool |-> "cursor"]
        /\ UNCHANGED <<settings, runVars>>

RemoveHookCursor(hookName) ==
    /\ lastOp.op = "init" /\ lastOp.tool = "cursor"
    /\ before' = cursorHooks
    /\ cursorHooks' = removeHookCursor(cursorHooks, hookName)
    /\ lastOp' = [op |-> "remove", name |-> hookName, config |-> <<>>, tool |-> "cursor"]
    /\ UNCHANGED <<settings, runVars>>

\* the same hook, unchanged, is translated and merged a second time
MergeHookAgain ==
    /\ lastOp.op = "merge" /\ lastOp.tool = "claude"
    /\ before' = settings
    /\ settings' = mergeHook(settings, lastOp.name, lastOp.config)
    /\ lastOp' = [lastOp EXCEPT !.op = "remerge"]
    /\ UNCHANGED <<cursorHooks, runVars>>

MergeHookCursorAgain ==
    /\ lastOp.op = "merge" /\ lastOp.tool = "cursor"
    /\ before' = cursorHooks
    /\ cursorHooks' = mergeHookCursor(cursorHooks, lastOp.name, lastOp.config)
    /\ lastOp' = [lastOp EXCEPT !.op = "remerge"]
    /\ UNCHANGED <<settings, runVars>>

NextMerge ==
    \/ (lastOp.op = "init" /\ lastOp.tool = "claude") /\
          \E n \in HookNames, c \in MergeConfigs : MergeHook(n, c)
    \/ \E n \in HookNames : RemoveHook(n)
    \/ (lastOp.op = "init" /\ lastOp.tool = "cursor") /\
          \E n \in HookNames, c \in MergeConfigs : MergeHookCursor(n, c)
    \/ \E n \in HookNames : RemoveHookCursor(n)
    \/ MergeHookAgain
    \/ MergeHookCursorAgain

SpecMerge == InitMerge /\ [][NextMerge]_vars

-----------------------------------------------------------------------------
(* Properties of the document operations (SpecMerge) *)

\* the entries of an array that owner does not own, in array order
Others(array, owner) == SelectSeq(array, LAMBDA h : h.hands # owner)

OwnedBy(array, owner) == SelectSeq(array, LAMBDA h : h.hands = owner)

HooksBefore == getHooks(before)
HooksAfter == getHooks(TargetDoc)

HasTargetHook(name) ==
    IF lastOp.tool = "claude" THEN hasHook(settings, name) ELSE hasHookCursor(cursorHooks, name)

\* C1: removeHook(doc, X) and removeHookCursor(doc, X) delete no entry marked
\* with another owner and no unmarked entry: under every event the entries
\* not owned by X are the same after the removal, in the same order.
C1_OwnershipIsolation ==
    lastOp.op = "remove" =>
        \A e \in DOMAIN HooksBefore :
            Others(HooksBefore[e], lastOp.name) # <<>> =>
                /\ e \in DOMAIN HooksAfter
                /\ Others(HooksAfter[e], lastOp.name) = Others(HooksBefore[e], lastOp.name)

\* a removal from a document that mixes X's entries with an unmarked entry
\* under one event and holds another owner's entry
C1_Witness ==
    /\ lastOp.op = "remove"
    /\ \E e \in DOMAIN HooksBefore :
          /\ OwnedBy(HooksBefore[e], lastOp.name) # <<>>
          /\ OwnedBy(HooksBefore[e], NoMarker) # <<>>
          /\ e \in DOMAIN HooksAfter
    /\ \E e \in DOMAIN HooksBefore, y \in HookNames \ {lastOp.name} :
          /\ OwnedBy(HooksBefore[e], y) # <<>>
          /\ e \in DOMAIN HooksAfter /\ OwnedBy(HooksAfter[e], y) # <<>>

NoDuplicateOwner(file) ==
    LET hooks == getHooks(file)
    IN  \A e \in DOMAIN hooks : \A n \in HookNames : Len(OwnedBy(hooks[e], n)) <= 1

\* C2: an operation applied to a document in which no event array holds two
\* entries of one owner leaves a document with the same property, so it
\* holds after any sequence of merges and removals.
C2_SingleEntryPerOwner ==
    (lastOp.op # "init" /\ NoDuplicateOwner(before)) => NoDuplicateOwner(TargetDoc)

\* hookA is installed with matcher *, and is merged again with matcher Bash:
\* the event holds one hookA entry, the new one
C2_Witness ==
    /\ lastOp.op = "merge" /\ lastOp.tool = "claude" /\ lastOp.name = "hookA"
    /\ NoDuplicateOwner(before)
    /\ "Stop" \in DOMAIN HooksBefore /\ "Stop" \in DOMAIN lastOp.config
    /\ Len(OwnedBy(HooksBefore["Stop"], "hookA")) = 1
    /\ OwnedBy(HooksBefore["Stop"], "hookA")[1].matcher = "*"
    /\ Len(lastOp.config["Stop"]) = 1 /\ lastOp.config["Stop"][1].matcher = "Bash"
    /\ Len(OwnedBy(HooksAfter["Stop"], "hookA")) = 1
    /\ OwnedBy(HooksAfter["Stop"], "hookA")[1].matcher = "Bash"

\* C3: translating an unchanged canonical config and merging it a second time
\* under the same hook name leaves the document as the first merge left it.
C3_IdempotentMerge ==
    lastOp.op = "remerge" => TargetDoc = before

\* a second merge of a config that has entries, into a document holding them
C3_Witness ==
    /\ lastOp.op = "remerge"
    /\ \E e \in DOMAIN lastOp.config : Len(lastOp.config[e]) = 2
    /\ HasTargetHook(lastOp.name)
    /\ \E e \in DOMAIN HooksAfter : Len(HooksAfter[e]) > 1

\* C4: after removeHook / removeHookCursor for X no entry carries the marker X
\* (hasHook / hasHookCursor is false), and every event array left without
\* an entry is deleted from the document.
C4_RemoveAll ==
    lastOp.op = "remove" =>
        /\ ~HasTargetHook(lastOp.name)
        /\ \A e \in DOMAIN HooksAfter : OwnedBy(HooksAfter[e], lastOp.name) = <<>>
        /\ \A e \in DOMAIN HooksBefore :
              Others(HooksBefore[e], lastOp.name) = <<>> => e \notin DOMAIN HooksAfter

\* a removal that empties one event array and leaves another event in place
C4_Witness ==
    /\ lastOp.op = "remove"
    /\ \E e \in DOMAIN HooksBefore :
          /\ HooksBefore[e] # <<>>
          /\ Others(HooksBefore[e], lastOp.name) = <<>>
          /\ e \notin DOMAIN HooksAfter
    /\ DOMAIN HooksAfter # {}

\* the entries of other owners and the unmarked entries keep value and index
OtherEntriesKept ==
    \A e \in DOMAIN HooksBefore :
        /\ e \in DOMAIN HooksAfter
        /\ Len(HooksAfter[e]) >= Len(HooksBefore[e])
        /\ \A i \in 1..Len(HooksBefore[e]) :
              HooksBefore[e][i].hands # lastOp.name => HooksAfter[e][i] = HooksBefore[e][i]

\* X's entry is replaced at its index when there is one, appended otherwise
ReplacedOrAppended ==
    \A e \in DOMAIN lastOp.config :
        LET old == IF e \in DOMAIN HooksBefore THEN HooksBefore[e] ELSE <<>>
            idx == findIndex(old, lastOp.name)
            n   == Len(lastOp.config[e])
        IN  /\ e \in DOMAIN HooksAfter
            /\ n = 0 => HooksAfter[e] = old
            /\ (n > 0 /\ idx > 0) =>
                  /\ Len(HooksAfter[e]) = Len(old)
                  /\ HooksAfter[e][idx] = [lastOp.config[e][n] EXCEPT !.hands = lastOp.name]
            /\ (n > 0 /\ idx = 0) =>
                  /\ Len(HooksAfter[e]) = Len(old) + 1
                  /\ HooksAfter[e][Len(old) + 1] =
                        [lastOp.config[e][n] EXCEPT !.hands = lastOp.name]

\* every top-level key other than hooks that the document had keeps its value
TopLevelKeysKept ==
    LET old == readJsonFile(before)
        new == readJsonFile(TargetDoc)
    IN  /\ Has(old.other) => new.other = old.other
        /\ Has(old.version) => new.version = old.version

\* C5 (as claimed): mergeHook / mergeHookCursor for X change only X-owned
\* entries: unmarked entries, other owners' entries and every existing
\* top-level key other than hooks keep value and position; X's entry is
\* replaced at its index, a new owner's entry is appended at the end.
C5_MergeFrame ==
    lastOp.op \in {"merge", "remerge"} =>
        /\ OtherEntriesKept
        /\ ReplacedOrAppended
        /\ TopLevelKeysKept

-----------------------------------------------------------------------------
(* Objects whose keys are component names: the members in insertion order *)

IndexOf(members, name) ==
    IF \E i \in 1..Len(members) : members[i].name = name
    THEN CHOOSE i \in 1..Len(members) : members[i].name = name
    ELSE 0

Names(members) == {members[i].name : i \in 1..Len(members)}

\* object[name] = member: an existing key keeps its place, a new key goes last
PutMember(members, member) ==
    LET i == IndexOf(members, member.name)
    IN  IF i > 0 THEN [members EXCEPT ![i] = member] ELSE Append(members, member)

\* delete object[name]
DeleteMember(members, name) == SelectSeq(members, LAMBDA m : m.name # name)

-----------------------------------------------------------------------------
(* The file system under rules/.claude and under .claude *)

AbsentPath == [kind |-> "absent"]
FileNode(text) == [kind |-> "file", text |-> text]
\* a directory: file name -> content
DirNode(entries) == [kind |-> "dir", entries |-> entries]

pathExists(node) == node.kind # "absent"

\* fs.copy(src, dest): a file replaces dest; the files of a directory are
\* written into dest, and files that only dest has stay
copy(src, dest) ==
    IF src.kind = "dir" /\ dest.kind = "dir"
    THEN DirNode([f \in (DOMAIN dest.entries) \cup (DOMAIN src.entries) |->
                    IF f \in DOMAIN src.entries THEN src.entries[f] ELSE dest.entries[f]])
    ELSE src

-----------------------------------------------------------------------------
(* lib/tracker.js *)

FileCategories == <<"skills", "commands", "agents">>

\* the hash that stands for "no hash": computeFileHash returns null
Null == [null |-> TRUE]

\* md5 of the string, or of JSON.stringify(content); an object is given as
\* the ordered sequence of its members, which is what JSON.stringify keeps
computeHash(content) == [md5 |-> content]

\* fs.readFile throws for a missing path and for a directory
computeFileHash(node) ==
    IF node.kind = "file" THEN computeHash(node.text) ELSE Null

\* mutation: the empty record has no map for agents
createEmptyMetadataFourMaps ==
    [skills |-> <<>>, commands |-> <<>>, mcpServers |-> <<>>, hooks |-> <<>>]

createEmptyMetadata ==
    [skills |-> <<>>, commands |-> <<>>, mcpServers |-> <<>>, hooks |-> <<>>,
     agents |-> <<>>]

MissingMetadata == [state |-> "missing"]
CorruptMetadata == [state |-> "corrupt"]
writeMetadata(components) == [state |-> "ok", components |-> components]

\* the components of the metadata file; the empty metadata for a missing or
\* unparsable file
readMetadata(file) ==
    IF file.state = "ok" THEN file.components ELSE createEmptyMetadata

\* mutation: every category is kept under the key of the skills
getCategoryKeyShared(category) == "skills"

getCategoryKey(category) == category

\* component.sourcePath resolves to the component's place in the catalog
sourcePathOf(component) == <<component.category, component.name>>

\* mutation: the record is written into an empty metadata, not into the one
\* on disk
trackInstallFromEmpty(file, component, hash) ==
    writeMetadata([createEmptyMetadata EXCEPT ![getCategoryKey(component.category)] =
        PutMember(@, [name |-> component.name, hash |-> hash,
                      sourcePath |-> sourcePathOf(component)])])

trackInstall(file, component, hash) ==
    LET metadata    == readMetadata(file)
        categoryKey == getCategoryKey(component.category)
    IN  writeMetadata([metadata EXCEPT ![categoryKey] =
            PutMember(@, [name |-> component.name, hash |-> hash,
                          sourcePath |-> sourcePathOf(component)])])

trackUninstall(file, component) ==
    LET metadata    == readMetadata(file)
        categoryKey == getCategoryKey(component.category)
    IN  writeMetadata([metadata EXCEPT ![categoryKey] = DeleteMember(@, component.name)])

getTrackedComponents(file, category) == readMetadata(file)[getCategoryKey(category)]

isTracked(file, component) ==
    IndexOf(getTrackedComponents(file, component.category), component.name) > 0

\* the record of the component; only read when isTracked
getTrackedInfo(file, component) ==
    LET members == getTrackedComponents(file, component.category)
    IN  members[IndexOf(members, component.name)]

-----------------------------------------------------------------------------
(* lib/env-validator.js *)

EnvNames == {"API_KEY"}

\* the ${NAME} patterns of a string, for the strings that configs hold
ENV_VAR_PATTERN(string) ==
    IF string = "${API_KEY}" THEN {"API_KEY"} ELSE {}

\* process.env[varName] is truthy: set, and not to the empty string
validateEnvVar(environment, varName) ==
    environment[varName] # NoKey /\ environment[varName] # ""

-----------------------------------------------------------------------------
(* lib/merger.js: .claude/config.json *)

\* the document { mcpServers?: {name: config}, ...other keys }
EmptyConfig == [mcpServers |-> Absent, other |-> Absent]

NoConfigFile == [exists |-> FALSE, json |-> EmptyConfig]

readConfigFile(file) == IF file.exists /\ parses(file) THEN file.json ELSE EmptyConfig

\* config.mcpServers || {}
getMcpServers(targetFile) ==
    LET config == readConfigFile(targetFile)
    IN  IF Has(config.mcpServers) THEN Get(config.mcpServers) ELSE <<>>

setMcpServers(targetFile, mcpServers) ==
    writeJsonFile([readConfigFile(targetFile) EXCEPT !.mcpServers = Present(mcpServers)])

\* mutation: the servers read are dropped, only the one added is written
addMcpServerAlone(targetFile, serverName, serverConfig) ==
    setMcpServers(targetFile,
        PutMember(<<>>, [name |-> serverName, config |-> serverConfig]))

addMcpServer(targetFile, serverName, serverConfig) ==
    setMcpServers(targetFile,
        PutMember(getMcpServers(targetFile), [name |-> serverName, config |-> serverConfig]))

removeMcpServer(targetFile, serverName) ==
    setMcpServers(targetFile, DeleteMember(getMcpServers(targetFile), serverName))

hasMcpServer(targetFile, serverName) ==
    IndexOf(getMcpServers(targetFile), serverName) > 0

\* the server's config; only read when hasMcpServer
getMcpServer(targetFile, serverName) ==
    LET servers == getMcpServers(targetFile)
    IN  servers[IndexOf(servers, serverName)].config

\* lib/merger.js as the resolver uses it, on mcp.json
\* if (!config.mcpServers) config.mcpServers = {}; config.mcpServers[serverName] = serverConfig
addMcpServerResolver(targetFile, serverName, serverConfig) ==
    LET config == readConfigFile(targetFile)
        servers == IF Has(config.mcpServers) THEN Get(config.mcpServers) ELSE <<>>
    IN  writeJsonFile([config EXCEPT !.mcpServers =
            Present(PutMember(servers, [name |-> serverName, config |-> serverConfig]))])

\* if (config.mcpServers) delete config.mcpServers[serverName]; the document
\* is written in both cases
removeMcpServerResolver(targetFile, serverName) ==
    LET config == readConfigFile(targetFile)
    IN  writeJsonFile(IF Has(config.mcpServers)
                      THEN [config EXCEPT !.mcpServers =
                               Present(DeleteMember(Get(config.mcpServers), serverName))]
                      ELSE config)

\* config.mcpServers?.[serverName] ?? null, null being Absent
getMcpServerResolver(targetFile, serverName) ==
    LET config == readConfigFile(targetFile)
        servers == IF Has(config.mcpServers) THEN Get(config.mcpServers) ELSE <<>>
    IN  IF IndexOf(servers, serverName) > 0
        THEN Present(servers[IndexOf(servers, serverName)].config)
        ELSE Absent

-----------------------------------------------------------------------------
(* lib/env-validator.js: components *)

\* the strings of an MCP server config, a sequence of <<key, value>> members
scanServerConfig(config) ==
    UNION {ENV_VAR_PATTERN(config[i][2]) : i \in 1..Len(config)}

\* the strings of a hook config, { EventType: [{matcher, hooks: [{type,
\* command}]}] } or the canonical { event: [{matcher, command}] }
scanHookConfig(config) ==
    UNION {UNION {ENV_VAR_PATTERN(config[e][i].matcher) \cup
                  (IF "hooks" \in DOMAIN config[e][i]
                   THEN UNION {ENV_VAR_PATTERN(config[e][i].hooks[j].command) :
                                  j \in 1..Len(config[e][i].hooks)}
                   ELSE ENV_VAR_PATTERN(config[e][i].command)) :
                  i \in 1..Len(config[e])} :
           e \in DOMAIN config}

extractEnvVars(component) ==
    IF component.category = "mcpServers" THEN scanServerConfig(component.config)
    ELSE IF component.category = "hooks" THEN scanHookConfig(component.config)
    ELSE {}

validateComponentEnvVars(component, environment) ==
    LET requiredVars == extractEnvVars(component)
        missing      == {v \in requiredVars : ~validateEnvVar(environment, v)}
    IN  [missingVars |-> missing, isValid |-> missing = {}]

-----------------------------------------------------------------------------
(* lib/status.js *)

INSTALLED == "installed"
OUTDATED == "outdated"
AVAILABLE == "available"
MISSING_ENV == "missing-env"

\* component.targetPath
targetPathOf(component) == <<component.category, component.name>>

getFileBasedStatus(component, w) ==
    LET target     == w.targets[targetPathOf(component)]
        sourceHash == computeFileHash(component.source)
        targetHash == computeFileHash(target)
    IN  IF ~pathExists(target) THEN AVAILABLE
        ELSE IF sourceHash = targetHash THEN INSTALLED
        ELSE OUTDATED

\* mutation: the environment is looked at only for a server that is present
getMcpServerStatusEntryFirst(component, w, environment) ==
    IF ~hasMcpServer(w.mcpFile, component.name) THEN AVAILABLE
    ELSE IF ~validateComponentEnvVars(component, environment).isValid THEN MISSING_ENV
    ELSE IF computeHash(component.config)
              = computeHash(getMcpServer(w.mcpFile, component.name))
         THEN INSTALLED
         ELSE OUTDATED

getMcpServerStatus(component, w, environment) ==
    IF ~validateComponentEnvVars(component, environment).isValid THEN MISSING_ENV
    ELSE IF ~hasMcpServer(w.mcpFile, component.name) THEN AVAILABLE
    ELSE IF computeHash(component.config)
              = computeHash(getMcpServer(w.mcpFile, component.name))
         THEN INSTALLED
         ELSE OUTDATED

getHookStatus(component, w, environment) ==
    IF ~validateComponentEnvVars(component, environment).isValid THEN MISSING_ENV
    ELSE IF ~hasHook(w.settings, component.name) THEN AVAILABLE
    ELSE IF isTracked(w.tracker, component)
            /\ getTrackedInfo(w.tracker, component).hash = computeHash(component.config)
         THEN INSTALLED
         ELSE OUTDATED

getComponentStatus(component, w, environment) ==
    IF component.category = "mcpServers" THEN getMcpServerStatus(component, w, environment)
    ELSE IF component.category = "hooks" THEN getHookStatus(component, w, environment)
    ELSE getFileBasedStatus(component, w)

AllCategories == <<"skills", "commands", "agents", "hooks", "mcpServers">>

\* every component of the catalog with its status added
addStatusToComponents(components, w, environment) ==
    [category \in DOMAIN components |->
        [i \in 1..Len(components[category]) |->
            [component |-> components[category][i],
             name      |-> components[category][i].name,
             category  |-> category,
             status    |-> getComponentStatus(components[category][i], w, environment)]]]

-----------------------------------------------------------------------------
(* cli.js, class Hands: FILE_BASED components.  w is the target project:
   its settings, mcpFile, targets, backups and tracker. *)

installFileComponent(w, component) ==
    LET targetPath == targetPathOf(component)
        target     == w.targets[targetPath]
        sourceHash == computeFileHash(component.source)
        targetHash == computeFileHash(target)
    IN  IF ~pathExists(component.source) THEN w
        ELSE [w EXCEPT
                !.backups = IF pathExists(target) /\ sourceHash # targetHash
                            THEN [@ EXCEPT ![targetPath] = copy(target, @)]
                            ELSE @,
                !.targets = [@ EXCEPT ![targetPath] = copy(component.source, target)],
                !.tracker = trackInstall(@, component, sourceHash)]

uninstallFileComponent(w, component) ==
    [w EXCEPT !.targets = [@ EXCEPT ![targetPathOf(component)] = AbsentPath]]

NoResults == [installed |-> <<>>, updated |-> <<>>, removed |-> <<>>]

\* the loop "Install selected" over the selected components of one category
RECURSIVE installSelected(_, _, _)
installSelected(st, items, selectedNames) ==
    IF items = <<>> THEN st
    ELSE LET comp == Head(items)
             next ==
                IF comp.name \in selectedNames /\ comp.status = AVAILABLE
                THEN [w       |-> installFileComponent(st.w, comp.component),
                      results |-> [st.results EXCEPT !.installed = Append(@, comp.name)]]
                ELSE IF comp.name \in selectedNames /\ comp.status = OUTDATED
                THEN [w       |-> installFileComponent(st.w, comp.component),
                      results |-> [st.results EXCEPT !.updated = Append(@, comp.name)]]
                ELSE st
         IN  installSelected(next, Tail(items), selectedNames)

\* the loop "Remove unselected that were previously installed"
RECURSIVE removeUnselected(_, _, _)
removeUnselected(st, items, selectedNames) ==
    IF items = <<>> THEN st
    ELSE LET comp == Head(items)
             next ==
                IF comp.name \notin selectedNames /\ comp.status \in {INSTALLED, OUTDATED}
                THEN [w       |-> uninstallFileComponent(st.w, comp.component),
                      results |-> [st.results EXCEPT !.removed = Append(@, comp.name)]]
                ELSE st
         IN  removeUnselected(next, Tail(items), selectedNames)

\* the loop over ['skills', 'commands', 'agents']
RECURSIVE syncFileCategories(_, _, _, _)
syncFileCategories(st, categories, selected, allComponents) ==
    IF categories = <<>> THEN st
    ELSE LET category == Head(categories)
             items    == allComponents[category]
             names    == {n \in Names(items) : <<category, n>> \in selected}
         IN  syncFileCategories(
                removeUnselected(installSelected(st, items, names), items, names),
                Tail(categories), selected, allComponents)

-----------------------------------------------------------------------------
(* lib/merger.js, earlier version: syncMcpServers and syncHooks on one file *)

NoResult == [added |-> <<>>, removed |-> <<>>, updated |-> <<>>]

RECURSIVE addSelectedServers(_, _, _)
addSelectedServers(st, selectedServers, currentServers) ==
    IF selectedServers = <<>> THEN st
    ELSE LET server  == Head(selectedServers)
             newHash == computeHash(server.config)
             i       == IndexOf(currentServers, server.name)
             result  ==
                IF i = 0 THEN [st.result EXCEPT !.added = Append(@, server.name)]
                ELSE IF computeHash(currentServers[i].config) # newHash
                THEN [st.result EXCEPT !.updated = Append(@, server.name)]
                ELSE st.result
             w       == [st.w EXCEPT
                            !.mcpFile = addMcpServer(@, server.name, server.config),
                            !.tracker = trackInstall(@, server, newHash)]
         IN  addSelectedServers([w |-> w, result |-> result],
                                Tail(selectedServers), currentServers)

RECURSIVE removeUnselectedServers(_, _, _)
removeUnselectedServers(st, trackedNames, selectedNames) ==
    IF trackedNames = <<>> THEN st
    ELSE LET serverName == Head(trackedNames)
             next ==
                IF serverName \notin selectedNames
                THEN [w |-> [st.w EXCEPT
                                !.mcpFile = removeMcpServer(@, serverName),
                                !.tracker = trackUninstall(@,
                                    [name |-> serverName, category |-> "mcpServers"])],
                      result |-> [st.result EXCEPT !.removed = Append(@, serverName)]]
                ELSE st
         IN  removeUnselectedServers(next, Tail(trackedNames), selectedNames)

NamesInOrder(members) == [i \in 1..Len(members) |-> members[i].name]

syncMcpServers(w, selectedServers) ==
    LET trackedServers == getTrackedComponents(w.tracker, "mcpServers")
        currentServers == getMcpServers(w.mcpFile)
        selectedNames  == Names(selectedServers)
    IN  removeUnselectedServers(
            addSelectedServers([w |-> w, result |-> NoResult],
                               selectedServers, currentServers),
            NamesInOrder(trackedServers), selectedNames)

RECURSIVE addSelectedHooks(_, _, _)
addSelectedHooks(st, selectedHooks, trackedHooks) ==
    IF selectedHooks = <<>> THEN st
    ELSE LET hook    == Head(selectedHooks)
             isNew   == ~hasHook(st.w.settings, hook.name)
             newHash == computeHash(hook.config)
             i       == IndexOf(trackedHooks, hook.name)
             result  ==
                IF isNew THEN [st.result EXCEPT !.added = Append(@, hook.name)]
                ELSE IF i > 0 /\ trackedHooks[i].hash # newHash
                THEN [st.result EXCEPT !.updated = Append(@, hook.name)]
                ELSE st.result
             w       == [st.w EXCEPT
                            !.settings = mergeHook(@, hook.name, hook.config),
                            !.tracker  = trackInstall(@, hook, newHash)]
         IN  addSelectedHooks([w |-> w, result |-> result], Tail(selectedHooks),
                              trackedHooks)

RECURSIVE removeUnselectedHooks(_, _, _)
removeUnselectedHooks(st, trackedNames, selectedNames) ==
    IF trackedNames = <<>> THEN st
    ELSE LET hookName == Head(trackedNames)
             next ==
                IF hookName \notin selectedNames
                THEN [w |-> [st.w EXCEPT
                                !.settings = removeHook(@, hookName),
                                !.tracker  = trackUninstall(@,
                                    [name |-> hookName, category |-> "hooks"])],
                      result |-> [st.result EXCEPT !.removed = Append(@, hookName)]]
                ELSE st
         IN  removeUnselectedHooks(next, Tail(trackedNames), selectedNames)

\* syncHooks(targetFile, selectedHooks, allHooks) of the earlier version, on
\* .claude/settings.json; the hook config is merged as the catalog gives it
syncHooksFile(w, selectedHooks) ==
    LET trackedHooks  == getTrackedComponents(w.tracker, "hooks")
        selectedNames == Names(selectedHooks)
    IN  removeUnselectedHooks(
            addSelectedHooks([w |-> w, result |-> NoResult], selectedHooks, trackedHooks),
            NamesInOrder(trackedHooks), selectedNames)

-----------------------------------------------------------------------------
(* cli.js, class Hands: syncComponents *)

\* mutation: a component that misses a variable is dropped without asking
selectedAfterPromptsHardBlock(category, selected, allComponents, environment, proceed) ==
    LET items == allComponents[category]
        kept  == SelectSeq(items, LAMBDA c :
                    /\ <<category, c.name>> \in selected
                    /\ validateComponentEnvVars(c.component, environment).isValid)
    IN  [i \in 1..Len(kept) |-> kept[i].component]

\* selected[category] after the missing-environment prompts: the selected
\* components, without those that miss a variable and that the operator
\* does not confirm
selectedAfterPrompts(category, selected, allComponents, environment, proceed) ==
    LET items == allComponents[category]
        kept  == SelectSeq(items, LAMBDA c :
                    /\ <<category, c.name>> \in selected
                    /\ \/ validateComponentEnvVars(c.component, environment).isValid
                       \/ c.name \in proceed)
    IN  [i \in 1..Len(kept) |-> kept[i].component]

pushResult(results, result) ==
    [installed |-> results.installed \o result.added,
     updated   |-> results.updated \o result.updated,
     removed   |-> results.removed \o result.removed]

\* selected: the <<category, name>> pairs the operator left checked;
\* proceed: the names for which the operator answers yes to "Install anyway?"
syncComponents(w, selected, allComponents, environment, proceed) ==
    LET files == syncFileCategories([w |-> w, results |-> NoResults], FileCategories,
                                    selected, allComponents)
        mcp   == IF Len(allComponents.mcpServers) > 0
                 THEN syncMcpServers(files.w,
                        selectedAfterPrompts("mcpServers", selected, allComponents,
                                             environment, proceed))
                 ELSE [w |-> files.w, result |-> NoResult]
        hooks == IF Len(allComponents.hooks) > 0
                 THEN syncHooksFile(mcp.w,
                        selectedAfterPrompts("hooks", selected, allComponents,
                                             environment, proceed))
                 ELSE [w |-> mcp.w, result |-> NoResult]
    IN  [w       |-> hooks.w,
         results |-> pushResult(pushResult(files.results, mcp.result), hooks.result)]

\* the order of a run's operations.  An operation is a file install or
\* removal, a document write or removal together with its tracker update,
\* or a missing-environment prompt.
Operation(op, category, name) == [op |-> op, category |-> category, name |-> name]

OperationsOf(op, category, names) ==
    [i \in 1..Len(names) |-> Operation(op, category, names[i])]

\* mutation: the removals of a category come before its installs
fileOperationsRemoveFirst(category, items, selected) ==
    LET installs == SelectSeq(items, LAMBDA c :
                        <<category, c.name>> \in selected /\ c.status \in {AVAILABLE, OUTDATED})
        removals == SelectSeq(items, LAMBDA c :
                        <<category, c.name>> \notin selected /\ c.status \in {INSTALLED, OUTDATED})
    IN  OperationsOf("remove", category, NamesInOrder(removals))
        \o OperationsOf("install", category, NamesInOrder(installs))

\* the loops "Install selected" and "Remove unselected" of one category
fileOperations(category, items, selected) ==
    LET installs == SelectSeq(items, LAMBDA c :
                        <<category, c.name>> \in selected /\ c.status \in {AVAILABLE, OUTDATED})
        removals == SelectSeq(items, LAMBDA c :
                        <<category, c.name>> \notin selected /\ c.status \in {INSTALLED, OUTDATED})
    IN  OperationsOf("install", category, NamesInOrder(installs))
        \o OperationsOf("remove", category, NamesInOrder(removals))

\* a JSON_ENTRY category: the prompts for the selected components that miss
\* a variable, then syncMcpServers or syncHooks: the selected entries are
\* written, then the tracked entries that are not selected are removed
entryOperations(category, w, selected, allComponents, environment, proceed) ==
    LET items   == allComponents[category]
        asked   == SelectSeq(items, LAMBDA c :
                      /\ <<category, c.name>> \in selected
                      /\ ~validateComponentEnvVars(c.component, environment).isValid)
        kept    == selectedAfterPrompts(category, selected, allComponents, environment, proceed)
        tracked == NamesInOrder(getTrackedComponents(w.tracker, category))
        removed == SelectSeq(tracked, LAMBDA n : n \notin Names(kept))
    IN  IF Len(items) = 0 THEN <<>>
        ELSE OperationsOf("prompt", category, NamesInOrder(asked))
             \o OperationsOf("install", category, NamesInOrder(kept))
             \o OperationsOf("remove", category, removed)

\* the operations of syncComponents, in the order it performs them
syncOperations(w, selected, allComponents, environment, proceed) ==
    fileOperations("skills", allComponents.skills, selected)
    \o fileOperations("commands", allComponents.commands, selected)
    \o fileOperations("agents", allComponents.agents, selected)
    \o entryOperations("mcpServers", w, selected, allComponents, environment, proceed)
    \o entryOperations("hooks", w, selected, allComponents, environment, proceed)

-----------------------------------------------------------------------------
(* Catalogs and target projects of the sync run *)

SkillDir(text) == DirNode([f \in {"SKILL.md"} |-> text])

\* the versions a component's payload goes through as the catalog is edited
SkillSources == {SkillDir("s1"), SkillDir("s2")}
FileSources == {FileNode("t1"), FileNode("t2")}
ServerConfigs ==
    {<<<<"command", "a">>>>, <<<<"command", "b">>>>,
     <<<<"command", "a">>, <<"token", "${API_KEY}">>>>}

ClaudeGroup(command, owner) ==
    [matcher |-> "*", hooks |-> <<[type |-> "command", command |-> command]>>,
     hands |-> owner]

HookConfigs ==
    {[e \in {"Stop"} |-> <<ClaudeGroup(c, NoKey)>>] : c \in {"c1", "c2", "${API_KEY}"}}

Component(category, name, payload) ==
    IF category \in {"mcpServers", "hooks"}
    THEN [name |-> name, category |-> category, config |-> payload]
    ELSE [name |-> name, category |-> category, source |-> payload]

\* the payloads a component of the category can have
Payloads(category) ==
    CASE category = "skills"     -> SkillSources
      [] category = "mcpServers" -> ServerConfigs
      [] category = "hooks"      -> HookConfigs
      [] OTHER                   -> FileSources

ComponentName(category) ==
    CASE category = "skills"     -> "sk"
      [] category = "commands"   -> "cmd"
      [] category = "agents"     -> "ag"
      [] category = "mcpServers" -> "srv"
      [] category = "hooks"      -> "hk"

CategorySet == {"skills", "commands", "agents", "mcpServers", "hooks"}

\* the catalog that holds one component in each of the given categories
CatalogOf(categories, payloadOf) ==
    [category \in CategorySet |->
        IF category \in categories
        THEN <<Component(category, ComponentName(category), payloadOf[category])>>
        ELSE <<>>]

\* the payloads of the catalog when the project is first synced
InitialPayload ==
    [skills     |-> SkillDir("s1"),
     commands   |-> FileNode("t1"),
     agents     |-> FileNode("t1"),
     mcpServers |-> <<<<"command", "a">>>>,
     hooks      |-> [e \in {"Stop"} |-> <<ClaudeGroup("c1", NoKey)>>]]

\* the sets of categories of the catalogs explored
CatalogShapes ==
    {{"skills"}, {"commands"}, {"agents"}, {"mcpServers"}, {"hooks"},
     {"commands", "mcpServers", "hooks"}}

TargetPaths == {<<category, ComponentName(category)>> : category \in {"skills", "commands", "agents"}}

\* what the operator may have at a target path of their own
UserNode(category) ==
    IF category = "skills" THEN SkillDir("user") ELSE FileNode("user")

\* all components of the catalog, as <<category, name>> pairs
ComponentsOf(components) ==
    UNION {{<<category, n>> : n \in Names(components[category])} :
            category \in DOMAIN components}

world ==
    [settings |-> settings, cursorHooks |-> cursorHooks, mcpFile |-> mcpFile,
     targets |-> targets, backups |-> backups, tracker |-> tracker]

\* a document the operator wrote: an entry of their own under the name of a
\* catalog server, or under another name
UserConfigFiles ==
    {writeJsonFile([mcpServers |-> Present(<<[name |-> n, config |-> c]>>),
                    other |-> Present("user")]) :
        n \in {"srv", "mine"}, c \in {<<<<"command", "a">>>>, <<<<"command", "own">>>>}}

UserSettingsFiles ==
    {writeJsonFile([version |-> Absent,
                    hooks |-> Present([e \in {"Stop"} |-> <<ClaudeGroup("u", NoMarker)>>]),
                    other |-> Present("user")])}

-----------------------------------------------------------------------------
(* Spec: runs of the CLI (Hands.run) on one target project, between which
   the catalog is edited, the operator edits the project and the
   environment changes. *)

NoSnapshot == [op |-> "none"]

Snapshot == [w |-> world, catalog |-> catalog, env |-> env]

Init ==
    /\ \E shape \in CatalogShapes :
          /\ catalog = CatalogOf(shape, InitialPayload)
          /\ targets \in {t \in [TargetPaths -> {AbsentPath, SkillDir("user"), FileNode("user")}] :
                            \A path \in TargetPaths :
                                t[path] \in {AbsentPath, UserNode(path[1])}
                                /\ (path[1] \notin shape => t[path] = AbsentPath)}
          /\ mcpFile \in {NoConfigFile} \cup
                         (IF "mcpServers" \in shape
                          THEN UserConfigFiles \cup {UnparsableFile} ELSE {})
          /\ settings \in {NoFile} \cup
                          (IF "hooks" \in shape
                           THEN UserSettingsFiles \cup {UnparsableFile} ELSE {})
    /\ backups = [path \in TargetPaths |-> AbsentPath]
    /\ tracker \in {MissingMetadata, CorruptMetadata}
    /\ cursorHooks = NoFile
    /\ env = [v \in EnvNames |-> NoKey]
    /\ lastOp = [op |-> "init"]
    /\ before = NoSnapshot

\* Hands.run: the statuses are computed, the operator leaves `selected`
\* checked and answers the missing-environment prompts, syncComponents runs
Run(selected, proceed) ==
    /\ ComponentsOf(catalog) # {}
    /\ \E allComponents \in {addStatusToComponents(catalog, world, env)} :
       \E done \in {syncComponents(world, selected, allComponents, env, proceed)} :
          /\ settings' = done.w.settings
          /\ mcpFile' = done.w.mcpFile
          /\ targets' = done.w.targets
          /\ backups' = done.w.backups
          /\ tracker' = done.w.tracker
          /\ lastOp' = [op |-> "run", selected |-> selected, proceed |-> proceed,
                        results |-> done.results,
                        operations |-> syncOperations(world, selected, allComponents,
                                                      env, proceed)]
    /\ before' = Snapshot
    /\ UNCHANGED <<cursorHooks, catalog, env>>

\* the edits between runs are explored on the catalogs of one component
EditsExplored == Cardinality(ComponentsOf(catalog)) = 1

\* the payload of a catalog component is edited
CatalogChange(category, payload) ==
    /\ EditsExplored
    /\ Len(catalog[category]) > 0
    /\ payload # (IF category \in {"mcpServers", "hooks"}
                  THEN catalog[category][1].config ELSE catalog[category][1].source)
    /\ catalog' = [catalog EXCEPT ![category] =
                      <<Component(category, ComponentName(category), payload)>>]
    /\ lastOp' = [op |-> "catalog", category |-> category]
    /\ before' = Snapshot
    /\ UNCHANGED <<settings, cursorHooks, mcpFile, targets, backups, tracker, env>>

\* the operator edits or deletes a file of the project
UserEdit(path, node) ==
    /\ EditsExplored
    /\ Len(catalog[path[1]]) > 0
    /\ targets[path] # node
    /\ targets' = [targets EXCEPT ![path] = node]
    /\ lastOp' = [op |-> "edit", path |-> path]
    /\ before' = Snapshot
    /\ UNCHANGED <<settings, cursorHooks, mcpFile, backups, tracker, catalog, env>>

\* the metadata file is deleted, was never checked in with the project, or
\* is left unparsable (a merge conflict, a truncated write)
TrackerLost ==
    /\ EditsExplored
    /\ tracker.state = "ok"
    /\ tracker' \in {MissingMetadata, CorruptMetadata}
    /\ lastOp' = [op |-> "trackerLost"]
    /\ before' = Snapshot
    /\ UNCHANGED <<settings, cursorHooks, mcpFile, targets, backups, catalog, env>>

\* a variable that the catalog refers to is set or unset in the environment
SetEnv(varName, value) ==
    /\ EditsExplored
    /\ \E category \in {"mcpServers", "hooks"} : \E i \in 1..Len(catalog[category]) :
          varName \in extractEnvVars(catalog[category][i])
    /\ env[varName] # value
    /\ env' = [env EXCEPT ![varName] = value]
    /\ lastOp' = [op |-> "env", varName |-> varName]
    /\ before' = Snapshot
    /\ UNCHANGED <<settings, cursorHooks, mcpFile, targets, backups, tracker, catalog>>

Selections == SUBSET ComponentsOf(catalog)

Next ==
    \/ \E selected \in Selections :
          \E proceed \in SUBSET {p[2] : p \in {q \in selected :
                                                  q[1] \in {"mcpServers", "hooks"}}} :
             Run(selected, proceed)
    \/ \E category \in CategorySet : \E payload \in Payloads(category) :
          CatalogChange(category, payload)
    \/ \E path \in TargetPaths : \E node \in {AbsentPath, UserNode(path[1])} :
          UserEdit(path, node)
    \/ TrackerLost
    \/ \E varName \in EnvNames, value \in {NoKey, "", "secret"} : SetEnv(varName, value)

Spec == Init /\ [][Next]_vars

-----------------------------------------------------------------------------
(* Properties of the sync run (Spec) *)

\* the components with the statuses the last operation started from
ItemsBefore == addStatusToComponents(before.catalog, before.w, before.env)

StatusNow(component) == getComponentStatus(component, world, env)

InSeq(name, names) == \E i \in 1..Len(names) : names[i] = name

\* the component is at none of its targets
TargetAbsent(component) ==
    CASE component.category = "hooks" ->
            ~hasHook(settings, component.name) /\ ~hasHookCursor(cursorHooks, component.name)
      [] component.category = "mcpServers" -> ~hasMcpServer(mcpFile, component.name)
      [] OTHER -> ~pathExists(targets[targetPathOf(component)])

\* the fingerprint of the component's catalog payload
Fingerprint(component) ==
    IF component.category \in {"mcpServers", "hooks"}
    THEN computeHash(component.config)
    ELSE computeFileHash(component.source)

\* C7 (as claimed): a component whose status was installed or outdated and
\* that the selection of a run leaves out is removed by the run from every
\* target, and its status is available afterwards.
C7_DeselectedRemoved ==
    lastOp.op = "run" =>
        \A category \in CategorySet : \A i \in 1..Len(ItemsBefore[category]) :
            LET item == ItemsBefore[category][i]
            IN  (item.status \in {INSTALLED, OUTDATED}
                 /\ <<category, item.name>> \notin lastOp.selected)
                => (TargetAbsent(item.component)
                    /\ StatusNow(item.component) = AVAILABLE)

\* C8 (as claimed): after a run the tracker holds a record for every
\* component the run installed, a record with the fingerprint of the current
\* payload for every component it updated, and no record for a component it
\* removed, whatever the category.
C8_RecordLifecycle ==
    lastOp.op = "run" =>
        \A category \in CategorySet : \A i \in 1..Len(ItemsBefore[category]) :
            LET item == ItemsBefore[category][i]
            IN  /\ InSeq(item.name, lastOp.results.installed) =>
                      isTracked(tracker, item.component)
                /\ InSeq(item.name, lastOp.results.updated) =>
                      /\ isTracked(tracker, item.component)
                      /\ getTrackedInfo(tracker, item.component).hash
                            = Fingerprint(item.component)
                /\ InSeq(item.name, lastOp.results.removed) =>
                      ~isTracked(tracker, item.component)

\* C9 (as claimed): for a FILE_BASED component, the status is installed after
\* a run installed it; it is outdated after the catalog payload of the
\* installed component changed; and after a run that leaves the outdated
\* component out of the selection it is available and the target is absent.
C9_RoundTrip ==
    \A category \in {"skills", "commands", "agents"} :
        \A i \in 1..Len(catalog[category]) :
            LET component == catalog[category][i]
                item      == ItemsBefore[category][i]
            IN  /\ (lastOp.op = "run"
                    /\ (InSeq(component.name, lastOp.results.installed)
                        \/ InSeq(component.name, lastOp.results.updated)))
                   => StatusNow(component) = INSTALLED
                /\ (lastOp.op = "catalog" /\ lastOp.category = category
                    /\ item.status = INSTALLED /\ isTracked(before.w.tracker, component))
                   => StatusNow(component) = OUTDATED
                /\ (lastOp.op = "run" /\ item.status = OUTDATED
                    /\ <<category, component.name>> \notin lastOp.selected)
                   => (StatusNow(component) = AVAILABLE
                       /\ ~pathExists(targets[targetPathOf(component)]))

\* the component is at its target
TargetPresent(component) ==
    CASE component.category = "hooks" -> hasHook(settings, component.name)
      [] component.category = "mcpServers" -> hasMcpServer(mcpFile, component.name)
      [] OTHER -> pathExists(targets[targetPathOf(component)])

\* C10 (as claimed): a component whose target is present and that has an
\* installed record (and misses no environment variable) has status outdated
\* when the fingerprint of its catalog payload differs from the fingerprint
\* of the record, and installed otherwise, whatever its category.
C10_StatusFromRecord ==
    \A category \in CategorySet : \A i \in 1..Len(catalog[category]) :
        LET component == catalog[category][i]
        IN  (TargetPresent(component) /\ isTracked(tracker, component)
             /\ validateComponentEnvVars(component, env).isValid)
            => StatusNow(component) =
                  (IF Fingerprint(component) # getTrackedInfo(tracker, component).hash
                   THEN OUTDATED ELSE INSTALLED)

\* C11 (as claimed): a component that has no installed record, or whose
\* target is not present, has status available unless an environment
\* variable it references is missing, whatever is found at the target.
C11_AvailableWithoutRecord ==
    \A category \in CategorySet : \A i \in 1..Len(catalog[category]) :
        LET component == catalog[category][i]
        IN  ((~isTracked(tracker, component) \/ ~TargetPresent(component))
             /\ validateComponentEnvVars(component, env).isValid)
            => StatusNow(component) = AVAILABLE

\* the variables the component's config references that have no value in
\* the environment
Unset(component) == {v \in extractEnvVars(component) : env[v] = NoKey}

\* the variables the component's config references that have no value, or
\* the empty string as value
UnsetOrEmpty(component) == {v \in extractEnvVars(component) : env[v] \in {NoKey, ""}}

EntryOf(w, component) ==
    IF component.category = "mcpServers"
    THEN IF hasMcpServer(w.mcpFile, component.name)
         THEN <<getMcpServer(w.mcpFile, component.name)>> ELSE <<>>
    ELSE [e \in DOMAIN getHooks(w.settings) |->
             OwnedBy(getHooks(w.settings)[e], component.name)]

\* the document holds the component's catalog config and the tracker holds
\* its record
Written(component) ==
    /\ isTracked(tracker, component)
    /\ getTrackedInfo(tracker, component).hash = computeHash(component.config)
    /\ IF component.category = "mcpServers"
       THEN EntryOf(world, component) = <<component.config>>
       ELSE \A e \in DOMAIN component.config :
               /\ e \in DOMAIN getHooks(settings)
               /\ OwnedBy(getHooks(settings)[e], component.name)
                     = [i \in 1..Len(component.config[e]) |->
                           [component.config[e][i] EXCEPT !.hands = component.name]]

\* C13: a selected MCP server or hook that misses an environment variable is
\* in the document with its catalog config and in the tracker after the run
\* when the operator confirmed "Install anyway?"; when the operator declined,
\* the run wrote neither: the component has no record, and its entry is
\* absent or as it was before the run.
C13_OverrideGate ==
    lastOp.op = "run" =>
        \A category \in {"mcpServers", "hooks"} :
            \A i \in 1..Len(before.catalog[category]) :
                LET component == before.catalog[category][i]
                IN  (/\ <<category, component.name>> \in lastOp.selected
                     /\ ~validateComponentEnvVars(component, before.env).isValid)
                    => IF component.name \in lastOp.proceed
                       THEN Written(component)
                       ELSE /\ ~isTracked(tracker, component)
                            /\ \/ ~TargetPresent(component)
                               \/ EntryOf(world, component) = EntryOf(before.w, component)

\* a run installed an absent component that misses a variable, on the
\* operator's confirmation
C13_Witness ==
    /\ lastOp.op = "run"
    /\ \E category \in {"mcpServers", "hooks"} :
          \E i \in 1..Len(before.catalog[category]) :
             LET component == before.catalog[category][i]
             IN  /\ <<category, component.name>> \in lastOp.selected
                 /\ Unset(component) # {}
                 /\ component.name \in lastOp.proceed
                 /\ EntryOf(before.w, component) # EntryOf(world, component)
                 /\ Written(component)

\* the server config carries a marker member naming the owner
Marked(config, owner) == \E j \in 1..Len(config) : config[j] = <<"_hands", owner>>

\* C16 (as claimed): every hook entry and every mcpServers entry that a run
\* writes carries a marker naming the owning component (_hands = X for hook
\* X, a marker naming S in the entry of server S), and every entry that
\* carried no marker before the run is in the document, unchanged, after it.
C16_WrittenEntriesMarked ==
    lastOp.op = "run" =>
        LET hooksBefore   == getHooks(before.w.settings)
            hooksAfter    == getHooks(settings)
            serversBefore == getMcpServers(before.w.mcpFile)
            serversAfter  == getMcpServers(mcpFile)
        IN  /\ \A e \in DOMAIN hooksAfter : \A i \in 1..Len(hooksAfter[e]) :
                  (e \notin DOMAIN hooksBefore \/ ~InSeq(hooksAfter[e][i], hooksBefore[e]))
                  => hooksAfter[e][i].hands \in Names(before.catalog.hooks)
            /\ \A i \in 1..Len(serversAfter) :
                  ~InSeq(serversAfter[i], serversBefore)
                  => Marked(serversAfter[i].config, serversAfter[i].name)
            /\ \A e \in DOMAIN hooksBefore :
                  OwnedBy(hooksBefore[e], NoMarker) # <<>>
                  => /\ e \in DOMAIN hooksAfter
                     /\ OwnedBy(hooksAfter[e], NoMarker) = OwnedBy(hooksBefore[e], NoMarker)
            /\ \A i \in 1..Len(serversBefore) :
                  ~Marked(serversBefore[i].config, serversBefore[i].name)
                  => InSeq(serversBefore[i], serversAfter)

-----------------------------------------------------------------------------
(* lib/merger.js: multi-tool hook sync.  w is the target project. *)

\* TOOL_TARGETS[tool] is .cursor/hooks.json for cursor, .claude/settings.json
\* for claude
hasHookAny(w, hookName, tools) ==
    \E i \in 1..Len(tools) :
        IF tools[i] = "cursor" THEN hasHookCursor(w.cursorHooks, hookName)
        ELSE hasHook(w.settings, hookName)

\* mutation: the hook is written to the first detected tool only
RECURSIVE installToFirstTool(_, _, _)
installToFirstTool(w, hook, tools) ==
    IF tools = <<>> THEN w
    ELSE IF Head(tools) = "cursor"
         THEN [w EXCEPT !.cursorHooks = mergeHookCursor(@, hook.name, toCursor(hook.config))]
         ELSE [w EXCEPT !.settings = mergeHook(@, hook.name, toClaudeCode(hook.config))]

\* the loop "Install to all detected tools"
RECURSIVE installToTools(_, _, _)
installToTools(w, hook, tools) ==
    IF tools = <<>> THEN w
    ELSE installToTools(
            IF Head(tools) = "cursor"
            THEN [w EXCEPT !.cursorHooks = mergeHookCursor(@, hook.name, toCursor(hook.config))]
            ELSE [w EXCEPT !.settings = mergeHook(@, hook.name, toClaudeCode(hook.config))],
            hook, Tail(tools))

RECURSIVE removeFromTools(_, _, _)
removeFromTools(w, hookName, tools) ==
    IF tools = <<>> THEN w
    ELSE removeFromTools(
            IF Head(tools) = "cursor"
            THEN [w EXCEPT !.cursorHooks = removeHookCursor(@, hookName)]
            ELSE [w EXCEPT !.settings = removeHook(@, hookName)],
            hookName, Tail(tools))

RECURSIVE syncSelectedHooks(_, _, _, _)
syncSelectedHooks(st, selectedHooks, trackedHooks, tools) ==
    IF selectedHooks = <<>> THEN st
    ELSE LET hook    == Head(selectedHooks)
             isNew   == ~hasHookAny(st.w, hook.name, tools)
             newHash == computeHash(hook.config)
             i       == IndexOf(trackedHooks, hook.name)
             result  ==
                IF isNew THEN [st.result EXCEPT !.added = Append(@, hook.name)]
                ELSE IF i > 0 /\ trackedHooks[i].hash # newHash
                THEN [st.result EXCEPT !.updated = Append(@, hook.name)]
                ELSE st.result
             w       == [installToTools(st.w, hook, tools) EXCEPT
                            !.tracker = trackInstall(@, hook, newHash)]
         IN  syncSelectedHooks([w |-> w, result |-> result], Tail(selectedHooks),
                               trackedHooks, tools)

RECURSIVE removeUnselectedFromTools(_, _, _, _)
removeUnselectedFromTools(st, trackedNames, selectedNames, tools) ==
    IF trackedNames = <<>> THEN st
    ELSE LET hookName == Head(trackedNames)
             next ==
                IF hookName \notin selectedNames
                THEN [w |-> [removeFromTools(st.w, hookName, tools) EXCEPT
                                !.tracker = trackUninstall(@,
                                    [name |-> hookName, category |-> "hooks"])],
                      result |-> [st.result EXCEPT !.removed = Append(@, hookName)]]
                ELSE st
         IN  removeUnselectedFromTools(next, Tail(trackedNames), selectedNames, tools)

syncHooks(w, selectedHooks, trackedHooks, tools) ==
    removeUnselectedFromTools(
        syncSelectedHooks([w |-> w, result |-> NoResult], selectedHooks, trackedHooks, tools),
        NamesInOrder(trackedHooks), Names(selectedHooks), tools)

-----------------------------------------------------------------------------
(* SpecSync: calls of the multi-tool syncHooks on one target project, with
   the hooks the tracker holds as trackedHooks and the tools detected at
   the time of the call. *)

\* detectTools: claude before cursor, each when its directory is there
DetectedTools == {<<>>, <<"claude">>, <<"cursor">>, <<"claude", "cursor">>}

UserCursorFiles ==
    {writeJsonFile([version |-> Present(1),
                    hooks |-> Present([e \in {"stop"} |->
                                <<[command |-> "u", matcher |-> NoKey, hands |-> NoMarker]>>]),
                    other |-> Absent])}

\* the canonical configs of the hook whose sync is followed
SyncConfigs ==
    ConfigsOver({"stop", "notification"}, [matcher : {"Bash"}, command : {"c1"}])

HookCatalog(configA) ==
    [category \in CategorySet |->
        IF category = "hooks"
        THEN <<Component("hooks", "hookA", configA),
               Component("hooks", "hookB", [e \in {"stop"} |-> <<[matcher |-> "*", command |-> "c1"]>>])>>
        ELSE <<>>]

InitSync ==
    /\ \E configA \in SyncConfigs : catalog = HookCatalog(configA)
    /\ \/ settings = NoFile /\ cursorHooks = NoFile
       \/ settings \in UserSettingsFiles /\ cursorHooks \in UserCursorFiles
    /\ tracker = MissingMetadata
    /\ mcpFile = NoConfigFile
    /\ targets = [path \in TargetPaths |-> AbsentPath]
    /\ backups = [path \in TargetPaths |-> AbsentPath]
    /\ env = [v \in EnvNames |-> NoKey]
    /\ lastOp = [op |-> "init"]
    /\ before = NoSnapshot

SyncHooks(selectedNames, tools) ==
    LET selectedHooks == SelectSeq(catalog.hooks, LAMBDA h : h.name \in selectedNames)
        trackedHooks  == getTrackedComponents(tracker, "hooks")
    IN  /\ \E done \in {syncHooks(world, selectedHooks, trackedHooks, tools)} :
              /\ settings' = done.w.settings
              /\ cursorHooks' = done.w.cursorHooks
              /\ tracker' = done.w.tracker
              /\ lastOp' = [op |-> "sync", selected |-> selectedHooks, tools |-> tools,
                            result |-> done.result]
        /\ before' = Snapshot
        /\ UNCHANGED <<mcpFile, targets, backups, catalog, env>>

NextSync ==
    \E selectedNames \in SUBSET Names(catalog.hooks) : \E tools \in DetectedTools :
        SyncHooks(selectedNames, tools)

SpecSync == InitSync /\ [][NextSync]_vars

-----------------------------------------------------------------------------
(* Properties of the multi-tool hook sync (SpecSync) *)

HasHookIn(tool, hookName) ==
    IF tool = "cursor" THEN hasHookCursor(cursorHooks, hookName)
    ELSE hasHook(settings, hookName)

HooksIn(tool) ==
    IF tool = "cursor" THEN getHooksCursor(cursorHooks) ELSE getHooks(settings)

\* the events of the hook that the tool supports and that have an entry
EventsWithEntries(hook, tool) ==
    {e \in SupportedEvents(hook.config, tool) : Len(hook.config[e]) > 0}

\* under each such event the tool's document holds an entry marked with the
\* hook's name
EntriesWritten(hook, tool) ==
    \A e \in EventsWithEntries(hook, tool) :
        LET mapped == MappedEvent(e, tool)
        IN  /\ mapped \in DOMAIN HooksIn(tool)
            /\ OwnedBy(HooksIn(tool)[mapped], hook.name) # <<>>

\* C6 (as claimed): after syncHooks, every selected hook is found by hasHook /
\* hasHookCursor in the document of every detected tool that supports at
\* least one of the hook's events.
C6_EveryDetectedTool ==
    lastOp.op = "sync" =>
        \A i \in 1..Len(lastOp.selected) : \A j \in 1..Len(lastOp.tools) :
            SupportedEvents(lastOp.selected[i].config, lastOp.tools[j]) # {}
            => HasHookIn(lastOp.tools[j], lastOp.selected[i].name)

\* C6 (amended): after syncHooks, every selected hook is found by hasHook /
\* hasHookCursor in the document of every detected tool that supports at
\* least one of the hook's events for which the config has an entry, and
\* each such event holds there an entry marked with the hook's name.
C6_EveryDetectedToolWithEntries ==
    lastOp.op = "sync" =>
        \A i \in 1..Len(lastOp.selected) : \A j \in 1..Len(lastOp.tools) :
            EventsWithEntries(lastOp.selected[i], lastOp.tools[j]) # {}
            => /\ HasHookIn(lastOp.tools[j], lastOp.selected[i].name)
               /\ EntriesWritten(lastOp.selected[i], lastOp.tools[j])

\* hookA, new to both documents, is synced with both tools detected and is
\* then found in both
C6_Witness ==
    /\ lastOp.op = "sync" /\ lastOp.tools = <<"claude", "cursor">>
    /\ \E i \in 1..Len(lastOp.selected) :
          /\ lastOp.selected[i].name = "hookA"
          /\ EventsWithEntries(lastOp.selected[i], "claude") # {}
          /\ EventsWithEntries(lastOp.selected[i], "cursor") # {}
    /\ ~hasHook(before.w.settings, "hookA")
    /\ ~hasHookCursor(before.w.cursorHooks, "hookA")
    /\ hasHook(settings, "hookA") /\ hasHookCursor(cursorHooks, "hookA")

-----------------------------------------------------------------------------
(* SpecInterrupt: calls of the multi-tool syncHooks that run to their end and
   calls that an exception or the end of the process cuts short. *)

\* syncHooks up to the point where it is left by an exception or the process
\* ends: the hooks before the k-th are installed and tracked, the k-th is
\* written to the tools before the j-th; the write to the j-th tool (or, for
\* j past the last tool, trackInstall) does not happen, and nothing after it
syncHooksInterrupted(w, selectedHooks, trackedHooks, tools, k, j) ==
    LET done == syncSelectedHooks([w |-> w, result |-> NoResult],
                                  SubSeq(selectedHooks, 1, k - 1), trackedHooks, tools)
    IN  installToTools(done.w, selectedHooks[k], SubSeq(tools, 1, j - 1))

\* a call of syncHooks in which the write to the j-th tool's document throws
\* (j <= Len(tools)), or that the end of the process cuts short before
\* trackInstall (j = Len(tools) + 1), while the k-th selected hook is
\* installed; the call after an interrupted one is followed to its end
SyncInterrupted(selectedNames, tools, k, j) ==
    LET selectedHooks == SelectSeq(catalog.hooks, LAMBDA h : h.name \in selectedNames)
        trackedHooks  == getTrackedComponents(tracker, "hooks")
    IN  /\ lastOp.op # "interrupted"
        /\ k \in 1..Len(selectedHooks) /\ j \in 1..(Len(tools) + 1)
        /\ \E done \in {syncHooksInterrupted(world, selectedHooks, trackedHooks, tools, k, j)} :
              /\ settings' = done.settings
              /\ cursorHooks' = done.cursorHooks
              /\ tracker' = done.tracker
        /\ lastOp' = [op |-> "interrupted", selected |-> selectedHooks, tools |-> tools,
                      hook |-> k, step |-> j]
        /\ before' = Snapshot
        /\ UNCHANGED <<mcpFile, targets, backups, catalog, env>>

InitInterrupt ==
    /\ \E configA \in {[e \in events |-> <<[matcher |-> "Bash", command |-> "c1"]>>] :
                           events \in {{"stop"}, {"stop", "notification"}}} :
          catalog = HookCatalog(configA)
    /\ \/ settings = NoFile /\ cursorHooks = NoFile
       \/ settings \in UserSettingsFiles /\ cursorHooks \in UserCursorFiles
    /\ tracker = MissingMetadata
    /\ mcpFile = NoConfigFile
    /\ targets = [path \in TargetPaths |-> AbsentPath]
    /\ backups = [path \in TargetPaths |-> AbsentPath]
    /\ env = [v \in EnvNames |-> NoKey]
    /\ lastOp = [op |-> "init"]
    /\ before = NoSnapshot

NextInterrupt ==
    \/ \E selectedNames \in SUBSET Names(catalog.hooks) : \E tools \in DetectedTools :
          SyncHooks(selectedNames, tools)
    \/ lastOp.op # "interrupted" /\
          \E selectedNames \in SUBSET Names(catalog.hooks) : \E tools \in DetectedTools :
             \E k \in 1..Cardinality(selectedNames), j \in 1..(Len(tools) + 1) :
                SyncInterrupted(selectedNames, tools, k, j)

SpecInterrupt == InitInterrupt /\ [][NextInterrupt]_vars

-----------------------------------------------------------------------------
(* Pure functions of lib/tracker.js and lib/adapters.js, applied to inputs
   drawn from bounded sets *)

MaxMembers == 3

\* JSON objects as JSON.parse and object literals build them: members in
\* insertion order, no key twice
JsonObjects ==
    {o \in BoundedSeq({"command", "token", "url"} \X {"a", "b"}, MaxMembers) :
        \A i, j \in 1..Len(o) : o[i][1] = o[j][1] => i = j}

MaxCanonEntries == 3

\* canonical configs: up to MaxCanonEntries entries under stop, with matcher
\* omitted, default or a tool name; at most one entry under notification,
\* which Cursor has no name for, and under userPromptSubmit, which EVENT_MAP
\* does not list
TranslateConfigs ==
    LET other == BoundedSeq({[matcher |-> "Bash", command |-> "c3"]}, 1)
    IN  UNION {{[e \in D |-> full[e]] :
                   D \in SUBSET {"stop", "notification", "userPromptSubmit"}} :
               full \in [stop : BoundedSeq(CanonEntries, MaxCanonEntries),
                         notification : other, userPromptSubmit : other]}

InitPure ==
    /\ lastOp = [op |-> "init"]
    /\ before = NoSnapshot
    /\ settings = NoFile /\ cursorHooks = NoFile /\ mcpFile = NoConfigFile
    /\ targets = <<>> /\ backups = <<>> /\ tracker = MissingMetadata
    /\ catalog = <<>> /\ env = <<>>

\* a call of computeHash, and a second call to compare it with; before
\* keeps the first
ComputeHash(content) ==
    /\ lastOp.op \in {"init", "hash"} /\ before = NoSnapshot
    /\ lastOp' = [op |-> "hash", content |-> content, digest |-> computeHash(content)]
    /\ before' = IF lastOp.op = "hash" THEN lastOp ELSE NoSnapshot
    /\ UNCHANGED <<settings, cursorHooks, runVars>>

ToClaudeCode(canonicalConfig) ==
    /\ lastOp.op = "init"
    /\ lastOp' = [op |-> "toClaudeCode", config |-> canonicalConfig,
                  result |-> toClaudeCode(canonicalConfig)]
    /\ before' = NoSnapshot
    /\ UNCHANGED <<settings, cursorHooks, runVars>>

ToCursor(canonicalConfig) ==
    /\ lastOp.op = "init"
    /\ lastOp' = [op |-> "toCursor", config |-> canonicalConfig,
                  result |-> toCursor(canonicalConfig)]
    /\ before' = NoSnapshot
    /\ UNCHANGED <<settings, cursorHooks, runVars>>

NextPure ==
    \/ before = NoSnapshot /\ \E content \in JsonObjects : ComputeHash(content)
    \/ lastOp.op = "init" /\ \E canonicalConfig \in TranslateConfigs :
          ToClaudeCode(canonicalConfig)
    \/ lastOp.op = "init" /\ \E canonicalConfig \in TranslateConfigs :
          ToCursor(canonicalConfig)

SpecPure == InitPure /\ [][NextPure]_vars

-----------------------------------------------------------------------------
(* Properties of the pure functions (SpecPure) *)

\* the two objects have the same members, in whatever order
StructurallyEqual(a, b) ==
    {a[i] : i \in 1..Len(a)} = {b[i] : i \in 1..Len(b)}

\* C14 (as claimed): two calls of computeHash return the same digest when
\* their payloads are the same, and when their payloads are JSON objects
\* that are structurally equal and differ in the order of their keys only.
C14_FingerprintDeterminism ==
    (lastOp.op = "hash" /\ before.op = "hash"
     /\ StructurallyEqual(before.content, lastOp.content))
    => lastOp.digest = before.digest

\* the name the tool has for the canonical event, if EVENT_MAP lists the
\* event with a name for the tool
Supported(event, tool) ==
    event \in DOMAIN EVENT_MAP /\ EVENT_MAP[event][tool] # NoKey

\* the matcher of a canonical entry, a missing one counting as "*"
MatcherOf(entry) == IF entry.matcher = NoKey THEN "*" ELSE entry.matcher

\* the commands of the entries with the matcher, in entry order, as hooks
CommandsWith(entries, matcher) ==
    LET chosen == SelectSeq(entries, LAMBDA entry : MatcherOf(entry) = matcher)
    IN  [k \in 1..Len(chosen) |-> [type |-> "command", command |-> chosen[k].command]]

RECURSIVE CommandCount(_)
CommandCount(groups) ==
    IF groups = <<>> THEN 0 ELSE Len(Head(groups).hooks) + CommandCount(Tail(groups))

StopExample == [e \in {"stop"} |-> <<[matcher |-> "*", command |-> "c1"]>>]

OutputCommands(tool, result) ==
    UNION {UNION {IF tool = "claude"
                  THEN {result[m][i].hooks[j].command : j \in 1..Len(result[m][i].hooks)}
                  ELSE {result[m][i].command} :
                  i \in 1..Len(result[m])} :
           m \in DOMAIN result}

\* C19: the keys of the output of toClaudeCode and toCursor are exactly the
\* tool's names of the config's events that EVENT_MAP lists with a name for
\* the tool (never notification for Cursor, never an unlisted event), and the
\* output holds no command that only entries of other events have.
C19_UnsupportedDropped ==
    lastOp.op \in {"toClaudeCode", "toCursor"} =>
        LET tool      == IF lastOp.op = "toCursor" THEN "cursor" ELSE "claude"
            supported == {e \in DOMAIN lastOp.config : Supported(e, tool)}
        IN  /\ DOMAIN lastOp.result = {EVENT_MAP[e][tool] : e \in supported}
            /\ tool = "cursor" =>
                  DOMAIN lastOp.result \cap {"notification", "Notification"} = {}
            /\ OutputCommands(tool, lastOp.result)
                  = UNION {{lastOp.config[e][k].command : k \in 1..Len(lastOp.config[e])} :
                              e \in supported}

\* a config with entries under stop, notification and an unlisted event is
\* translated for Cursor: only stop is in the output
C19_Witness ==
    /\ lastOp.op = "toCursor"
    /\ DOMAIN lastOp.config = {"stop", "notification", "userPromptSubmit"}
    /\ \A e \in DOMAIN lastOp.config : Len(lastOp.config[e]) > 0
    /\ DOMAIN lastOp.result = {"stop"}

-----------------------------------------------------------------------------
(* SpecInstall: calls of Hands.installFileComponent on a project that holds
   one FILE_BASED component's target in any state: absent, the operator's
   own, or a version of the catalog payload. *)

InitInstall ==
    /\ \E category \in {"skills", "commands", "agents"} :
          /\ \E payload \in Payloads(category) :
                catalog = CatalogOf({category}, [InitialPayload EXCEPT ![category] = payload])
          /\ \E target \in {AbsentPath, UserNode(category)} \cup Payloads(category) :
                targets = [path \in TargetPaths |->
                              IF path[1] = category THEN target ELSE AbsentPath]
    /\ backups = [path \in TargetPaths |-> AbsentPath]
    /\ tracker = MissingMetadata
    /\ settings = NoFile /\ cursorHooks = NoFile /\ mcpFile = NoConfigFile
    /\ env = [v \in EnvNames |-> NoKey]
    /\ lastOp = [op |-> "init"]
    /\ before = NoSnapshot

InstallFileComponent(category) ==
    /\ Len(catalog[category]) > 0
    /\ \E done \in {installFileComponent(world, catalog[category][1])} :
          /\ targets' = done.targets
          /\ backups' = done.backups
          /\ tracker' = done.tracker
    /\ lastOp' = [op |-> "install", category |-> category]
    /\ before' = Snapshot
    /\ UNCHANGED <<settings, cursorHooks, mcpFile, catalog, env>>

\* the source of a catalog component is deleted after the catalog was read
SourceLost(category) ==
    /\ Len(catalog[category]) > 0
    /\ pathExists(catalog[category][1].source)
    /\ catalog' = [catalog EXCEPT ![category] =
                      <<Component(category, ComponentName(category), AbsentPath)>>]
    /\ lastOp' = [op |-> "sourceLost", category |-> category]
    /\ before' = Snapshot
    /\ UNCHANGED <<settings, cursorHooks, mcpFile, targets, backups, tracker, env>>

NextInstall ==
    \/ \E category \in {"skills", "commands", "agents"} : InstallFileComponent(category)
    \/ \E category \in {"skills", "commands", "agents"} : SourceLost(category)
    \/ \E selected \in Selections : Run(selected, {})
    \/ \E category \in {"skills", "commands", "agents"} : \E payload \in Payloads(category) :
          CatalogChange(category, payload)
    \/ \E path \in TargetPaths : \E node \in {AbsentPath, UserNode(path[1])} :
          UserEdit(path, node)

SpecInstall == InitInstall /\ [][NextInstall]_vars

-----------------------------------------------------------------------------
(* Properties of installFileComponent (SpecInstall) *)

\* the backup holds what the node held: the file's text, or every file of
\* the directory
Preserves(backup, node) ==
    IF node.kind = "file" THEN backup = node
    ELSE /\ backup.kind = "dir"
         /\ \A f \in DOMAIN node.entries :
               f \in DOMAIN backup.entries /\ backup.entries[f] = node.entries[f]

\* C15 (as claimed): a component whose source or target has no computable
\* fingerprint (computeFileHash returns null) does not have status installed,
\* and an installFileComponent call that finds the target present and has no
\* fingerprint for source or target leaves the target's former content in
\* the backup.
C15_AbsentFingerprintMeansChanged ==
    \A category \in {"skills", "commands", "agents"} :
        \A i \in 1..Len(catalog[category]) :
            LET component == catalog[category][i]
                path      == targetPathOf(component)
            IN  /\ (computeFileHash(component.source) = Null
                    \/ computeFileHash(targets[path]) = Null)
                   => StatusNow(component) # INSTALLED
                /\ (/\ lastOp.op = "install" /\ lastOp.category = category
                    /\ pathExists(before.w.targets[path])
                    /\ \/ computeFileHash(component.source) = Null
                       \/ computeFileHash(before.w.targets[path]) = Null)
                   => Preserves(backups[path], before.w.targets[path])

\* C20 (as claimed): when installFileComponent finds a target whose content
\* differs from the source, the content the target had is in the backup
\* <target>.local after the call, for a command or agent file and for a
\* skill directory alike.
C20_BackupBeforeOverwrite ==
    \A category \in {"skills", "commands", "agents"} :
        \A i \in 1..Len(catalog[category]) :
            LET component == catalog[category][i]
                path      == targetPathOf(component)
            IN  (/\ lastOp.op = "install" /\ lastOp.category = category
                 /\ pathExists(before.w.targets[path])
                 /\ before.w.targets[path] # component.source)
                => Preserves(backups[path], before.w.targets[path])

\* C21 (as claimed): for the FILE_BASED components, the report of a run
\* lists as installed or updated only components whose source the run copied
\* to the target, and as removed only components whose target it deleted; a
\* selected component whose source cannot be read is not copied and is in
\* neither list.
C21_ReportIsWhatHappened ==
    lastOp.op = "run" =>
        \A category \in {"skills", "commands", "agents"} :
            \A i \in 1..Len(before.catalog[category]) :
                LET component == before.catalog[category][i]
                    path      == targetPathOf(component)
                    listed    == \/ InSeq(component.name, lastOp.results.installed)
                                 \/ InSeq(component.name, lastOp.results.updated)
                IN  /\ listed =>
                          /\ pathExists(component.source)
                          /\ targets[path] = copy(component.source, before.w.targets[path])
                    /\ (~pathExists(component.source)
                        /\ <<category, component.name>> \in lastOp.selected) =>
                          /\ targets[path] = before.w.targets[path]
                          /\ ~listed
                    /\ InSeq(component.name, lastOp.results.removed) =>
                          ~pathExists(targets[path])

-----------------------------------------------------------------------------
(* Properties of interrupted calls (SpecInterrupt) *)

\* C22 (as claimed): when the write to one tool's document fails while a
\* hook is installed, the hooks installed before it stay written and
\* tracked, the failing hook stays written to the tools written before the
\* failure, and the hooks selected after it are still installed: written to
\* the other tools and tracked.
C22_FailureDoesNotAbort ==
    (lastOp.op = "interrupted" /\ lastOp.step <= Len(lastOp.tools)) =>
        LET hooks == lastOp.selected
            tools == lastOp.tools
        IN  /\ \A i \in 1..(lastOp.hook - 1) :
                  /\ isTracked(tracker, hooks[i])
                  /\ \A t \in 1..Len(tools) : EntriesWritten(hooks[i], tools[t])
            /\ \A t \in 1..(lastOp.step - 1) : EntriesWritten(hooks[lastOp.hook], tools[t])
            /\ \A i \in (lastOp.hook + 1)..Len(hooks) :
                  /\ isTracked(tracker, hooks[i])
                  /\ \A t \in 1..Len(tools) :
                        t # lastOp.step => EntriesWritten(hooks[i], tools[t])

-----------------------------------------------------------------------------
(* Properties of reads of missing and unparsable files, under Spec *)

\* the file is missing or JSON.parse rejects it
Unreadable(file) == ~(file.exists /\ parses(file))

\* the last run reached the write of the component: it is selected, the
\* operator did not decline it at a missing-environment prompt and, for a
\* file component, its status asked for an install or an update
Kept(component) ==
    /\ <<component.category, component.name>> \in lastOp.selected
    /\ IF component.category \in {"mcpServers", "hooks"}
       THEN \/ validateComponentEnvVars(component, before.env).isValid
            \/ component.name \in lastOp.proceed
       ELSE getComponentStatus(component, before.w, before.env) \in {AVAILABLE, OUTDATED}

\* C23: reading a missing or unparsable tracker file or target document
\* never fails: readMetadata returns the empty record with all five category
\* maps, readJsonFile returns the empty document, and the trackInstall,
\* mergeHook or addMcpServer that follows writes a well-formed document that
\* holds the new entry.
C23_UnreadableReadsEmpty ==
    lastOp.op = "run" =>
        /\ before.w.tracker.state # "ok"
              => readMetadata(before.w.tracker)
                    = [k \in {"skills", "commands", "mcpServers", "hooks", "agents"} |-> <<>>]
        /\ Unreadable(before.w.settings) => readJsonFile(before.w.settings) = EmptyObject
        /\ Unreadable(before.w.mcpFile) => readConfigFile(before.w.mcpFile) = EmptyConfig
        /\ \A category \in DOMAIN before.catalog :
              \A i \in 1..Len(before.catalog[category]) :
                 LET component == before.catalog[category][i]
                 IN  Kept(component) =>
                        /\ before.w.tracker.state # "ok"
                              => /\ tracker.state = "ok"
                                 /\ DOMAIN tracker.components
                                       = {"skills", "commands", "mcpServers", "hooks", "agents"}
                                 /\ isTracked(tracker, component)
                        /\ (category = "mcpServers" /\ Unreadable(before.w.mcpFile))
                              => ~Unreadable(mcpFile) /\ Written(component)
                        /\ (category = "hooks" /\ Unreadable(before.w.settings))
                              => ~Unreadable(settings) /\ Written(component)

\* a run started from an unparsable tracker file and an unparsable document
\* and wrote a component into both
C23_Witness ==
    /\ lastOp.op = "run"
    /\ before.w.tracker = CorruptMetadata
    /\ \E category \in {"mcpServers", "hooks"} :
          \E i \in 1..Len(before.catalog[category]) :
             LET component == before.catalog[category][i]
                 docBefore == IF category = "hooks" THEN before.w.settings
                                                    ELSE before.w.mcpFile
             IN  /\ docBefore = UnparsableFile
                 /\ Kept(component)
                 /\ Written(component)

-----------------------------------------------------------------------------
(* Dependency resolver: expandSelection and computeOrphans, as the
   specification of the resolver and the README's "Dependency Resolution"
   give them. A descriptor is identified by <<category, name>>. *)

identityOf(descriptor) == <<descriptor.category, descriptor.name>>

Identities(descriptors) == {identityOf(descriptors[i]) : i \in 1..Len(descriptors)}

\* the dependencies that the descriptor of this identity declares
declaredDependencies(descriptors, identity) ==
    LET i == CHOOSE i \in 1..Len(descriptors) : identityOf(descriptors[i]) = identity
    IN  descriptors[i].declaredDependencies

\* mutation: no membership check
visitedNever(result, identity) == FALSE

\* the membership check: the identity is in the result set already
visited(result, identity) == identity \in result

\* mutation: the dependencies of every category are followed
followsDependenciesOfAll(identity) == TRUE

\* only the dependencies of a skill are followed
followsDependencies(identity) == identity[1] = "skills"

\* the identities, in the order of the catalog
InCatalogOrder(descriptors, identities) ==
    LET members == SelectSeq(descriptors, LAMBDA d : identityOf(d) \in identities)
    IN  [i \in 1..Len(members) |-> identityOf(members[i])]

\* the worklist is seeded with the selected identities, the result is empty;
\* visits counts, per descriptor, how often it was added and expanded
startExpansion(selectedNames, descriptors) ==
    [worklist |-> InCatalogOrder(descriptors, selectedNames),
     result   |-> {},
     visits   |-> [identity \in Identities(descriptors) |-> 0]]

\* one turn of the loop: pop an item; unless it is in the result already,
\* add it and push the dependencies of a skill that are not in the result
expandStep(run, descriptors) ==
    LET item         == Head(run.worklist)
        rest         == Tail(run.worklist)
        dependencies ==
            IF followsDependencies(item)
            THEN {d \in declaredDependencies(descriptors, item) : ~visited(run.result, d)}
            ELSE {}
    IN  IF visited(run.result, item)
        THEN [run EXCEPT !.worklist = rest]
        ELSE [worklist |-> InCatalogOrder(descriptors, dependencies) \o rest,
              result   |-> run.result \cup {item},
              visits   |-> [run.visits EXCEPT ![item] = @ + 1]]

\* mutation: every member of the previous expansion that left is an orphan
computeOrphansOfAll(previouslyExpanded, newlyExpanded, directlySelected) ==
    {identity \in previouslyExpanded : identity \notin newlyExpanded}

\* the members of the previous expansion that were not directly selected
\* and that the new expansion does not hold
computeOrphans(previouslyExpanded, newlyExpanded, directlySelected) ==
    {identity \in previouslyExpanded :
        identity \notin newlyExpanded /\ identity \notin directlySelected}

-----------------------------------------------------------------------------
(* SpecResolve: two selections of the operator on one catalog; each is
   expanded turn by turn, and after the second the orphans of the first are
   offered for removal. *)

\* the loop is followed while no descriptor was expanded more often
MaxVisits == 2

Descriptor(category, name, dependencies) ==
    [category |-> category, name |-> name, declaredDependencies |-> dependencies]

\* two skills, an agent and an MCP server; the skills depend on each other,
\* on the agent and on the server, and the agent's descriptor may carry a
\* dependency of its own
ResolverCatalogs ==
    {<<Descriptor("skills", "A", depsA), Descriptor("skills", "B", depsB),
       Descriptor("agents", "reviewer", depsG), Descriptor("mcpServers", "linear", {})>> :
        depsA \in {{}, {<<"skills", "B">>}, {<<"skills", "B">>, <<"agents", "reviewer">>},
                   {<<"agents", "reviewer">>, <<"mcpServers", "linear">>}},
        depsB \in {{}, {<<"skills", "A">>}, {<<"agents", "reviewer">>},
                   {<<"skills", "A">>, <<"mcpServers", "linear">>}},
        depsG \in {{}, {<<"mcpServers", "linear">>}}}

InitResolve ==
    /\ catalog \in ResolverCatalogs
    /\ lastOp = [op |-> "init"]
    /\ before = NoSnapshot
    /\ settings = NoFile /\ cursorHooks = NoFile /\ mcpFile = NoConfigFile
    /\ targets = <<>> /\ backups = <<>> /\ tracker = MissingMetadata
    /\ env = <<>>

\* the operator confirms a selection: expandSelection starts; the second
\* selection keeps the first and its expansion for computeOrphans
Select(selectedNames) ==
    /\ \/ lastOp.op = "init" /\ before' = before
       \/ /\ lastOp.op = "expanded" /\ before = NoSnapshot
          /\ before' = [op |-> "previous", selected |-> lastOp.selected,
                        expanded |-> lastOp.run.result]
    /\ lastOp' = [op |-> "expanding", selected |-> selectedNames,
                  run |-> startExpansion(selectedNames, catalog)]
    /\ UNCHANGED <<settings, cursorHooks, mcpFile, targets, backups, tracker, catalog, env>>

\* one turn of the worklist loop of expandSelection
ExpandStep ==
    /\ lastOp.op = "expanding"
    /\ lastOp.run.worklist # <<>>
    /\ \A identity \in Identities(catalog) : lastOp.run.visits[identity] < MaxVisits
    /\ lastOp' = [lastOp EXCEPT !.run = expandStep(@, catalog)]
    /\ UNCHANGED <<settings, cursorHooks, mcpFile, targets, backups, tracker, catalog, env,
                   before>>

\* the worklist is empty: expandSelection returns the result set
ExpandReturn ==
    /\ lastOp.op = "expanding"
    /\ lastOp.run.worklist = <<>>
    /\ lastOp' = [lastOp EXCEPT !.op = "expanded"]
    /\ UNCHANGED <<settings, cursorHooks, mcpFile, targets, backups, tracker, catalog, env,
                   before>>

\* after a changed selection the orphans are computed and offered; they are
\* removed when the operator accepts
OfferOrphans(accept) ==
    /\ lastOp.op = "expanded"
    /\ before # NoSnapshot
    /\ \E orphans \in {computeOrphans(before.expanded, lastOp.run.result, before.selected)} :
          lastOp' = [op |-> "orphans", selected |-> lastOp.selected,
                     expanded |-> lastOp.run.result, orphans |-> orphans,
                     accept |-> accept, removed |-> IF accept THEN orphans ELSE {}]
    /\ UNCHANGED <<settings, cursorHooks, mcpFile, targets, backups, tracker, catalog, env,
                   before>>

NextResolve ==
    \/ (lastOp.op = "init" \/ (lastOp.op = "expanded" /\ before = NoSnapshot)) /\
          \E selectedNames \in SUBSET Identities(catalog) : Select(selectedNames)
    \/ ExpandStep
    \/ ExpandReturn
    \/ \E accept \in BOOLEAN : OfferOrphans(accept)

SpecResolve == InitResolve /\ [][NextResolve]_vars

\* the loop of expandSelection is not suspended for ever
SpecResolveFair == SpecResolve /\ WF_vars(ExpandStep) /\ WF_vars(ExpandReturn)

-----------------------------------------------------------------------------
(* Properties of the dependency resolver (SpecResolve, SpecResolveFair) *)

\* the descriptors reachable from the set by the declared dependencies of
\* skills, as the least set closed under them
RECURSIVE DependencyClosure(_, _)
DependencyClosure(identities, descriptors) ==
    LET skills == {identity \in identities : identity[1] = "skills"}
        grown  == identities \cup
                  UNION {declaredDependencies(descriptors, identity) : identity \in skills}
    IN  IF grown = identities THEN identities ELSE DependencyClosure(grown, descriptors)

\* the catalog declares the cycle A -> B -> A and nothing else for A and B
CycleAB ==
    /\ declaredDependencies(catalog, <<"skills", "A">>) = {<<"skills", "B">>}
    /\ declaredDependencies(catalog, <<"skills", "B">>) = {<<"skills", "A">>}

\* C24: expandSelection terminates on every catalog, also on one whose
\* declared dependencies hold a cycle, and expands each descriptor at most
\* once; for the cycle A -> B -> A, expandSelection({A}, catalog) returns
\* exactly {A, B}.
C24_ExpansionTerminates ==
    /\ [](lastOp.op \in {"expanding", "expanded"} =>
            /\ \A identity \in Identities(catalog) : lastOp.run.visits[identity] <= 1
            /\ (lastOp.op = "expanded" /\ CycleAB /\ lastOp.selected = {<<"skills", "A">>})
                  => lastOp.run.result = {<<"skills", "A">>, <<"skills", "B">>})
    /\ (lastOp.op = "expanding") ~> (lastOp.op = "expanded")

\* expandSelection({A}, catalog) returned on the cycle A -> B -> A, each of
\* the two expanded once
C24_Witness ==
    /\ lastOp.op = "expanded"
    /\ CycleAB
    /\ lastOp.selected = {<<"skills", "A">>}
    /\ lastOp.run.visits[<<"skills", "A">>] = 1
    /\ lastOp.run.visits[<<"skills", "B">>] = 1

\* C25: expandSelection returns exactly the dependency closure: every
\* selected descriptor and every descriptor reachable from one by the
\* declared dependencies of skills, nothing else, and the dependencies of a
\* descriptor that is not a skill are never followed.
C25_ExactClosure ==
    lastOp.op = "expanded" =>
        /\ lastOp.selected \subseteq lastOp.run.result
        /\ lastOp.run.result = DependencyClosure(lastOp.selected, catalog)

\* an expansion followed a skill's dependency on the agent and left out the
\* server that only the agent's descriptor names
C25_Witness ==
    /\ lastOp.op = "expanded"
    /\ <<"agents", "reviewer">> \in lastOp.run.result \ lastOp.selected
    /\ declaredDependencies(catalog, <<"agents", "reviewer">>) = {<<"mcpServers", "linear">>}
    /\ <<"mcpServers", "linear">> \notin lastOp.run.result

\* C26: computeOrphans returns exactly the members of the previous
\* expansion that were dependency-only, are not reachable from the new
\* directly selected set and are not directly selected; no directly
\* selected or still reachable descriptor is an orphan, and an orphan is
\* removed only if the operator accepts the offer.
C26_OrphansExact ==
    lastOp.op = "orphans" =>
        LET reachable == DependencyClosure(lastOp.selected, catalog)
        IN  /\ lastOp.orphans = {identity \in before.expanded :
                                    /\ identity \notin before.selected
                                    /\ identity \notin reachable
                                    /\ identity \notin lastOp.selected}
            /\ lastOp.orphans \cap (lastOp.selected \cup reachable) = {}
            /\ lastOp.removed \subseteq lastOp.orphans
            /\ lastOp.removed # {} => lastOp.accept

\* a skill was deselected, its dependency became an orphan, the skill itself
\* did not, and the operator declined the removal
C26_Witness ==
    /\ lastOp.op = "orphans"
    /\ lastOp.orphans # {}
    /\ (before.selected \ lastOp.expanded) # {}
    /\ ~lastOp.accept
    /\ lastOp.removed = {}

-----------------------------------------------------------------------------
(* SpecOrder: runs on a catalog of two commands, an MCP server that misses a
   variable, and a hook *)

OrderCatalog ==
    [skills     |-> <<>>,
     commands   |-> <<Component("commands", "cmd", FileNode("t1")),
                      Component("commands", "cmd2", FileNode("t1"))>>,
     agents     |-> <<>>,
     mcpServers |-> <<Component("mcpServers", "srv",
                                <<<<"command", "a">>, <<"token", "${API_KEY}">>>>)>>,
     hooks      |-> <<Component("hooks", "hk", [e \in {"Stop"} |-> <<ClaudeGroup("c1", NoKey)>>])>>]

InitOrder ==
    /\ catalog = OrderCatalog
    /\ targets = [path \in {<<"commands", "cmd">>, <<"commands", "cmd2">>} |-> AbsentPath]
    /\ backups = [path \in {<<"commands", "cmd">>, <<"commands", "cmd2">>} |-> AbsentPath]
    /\ settings = NoFile /\ cursorHooks = NoFile /\ mcpFile = NoConfigFile
    /\ tracker = MissingMetadata
    /\ env = [v \in EnvNames |-> NoKey]
    /\ lastOp = [op |-> "init"]
    /\ before = NoSnapshot

NextOrder ==
    \E selected \in Selections :
       \E proceed \in SUBSET {p[2] : p \in {q \in selected : q[1] = "mcpServers"}} :
          Run(selected, proceed)

SpecOrder == InitOrder /\ [][NextOrder]_vars

-----------------------------------------------------------------------------
(* Properties of the order of a run's operations (SpecOrder) *)

\* the operations that change the target project: all but the prompts
Changes(operations) == SelectSeq(operations, LAMBDA o : o.op # "prompt")

CategoryOrder == <<"skills", "commands", "agents", "mcpServers", "hooks">>

CategoryRank(category) == CHOOSE i \in 1..Len(CategoryOrder) : CategoryOrder[i] = category

\* the operations go through the categories in the order skills, commands,
\* agents, MCP servers, hooks
InCategoryOrder(changes) ==
    \A i, j \in 1..Len(changes) :
        i < j => CategoryRank(changes[i].category) <= CategoryRank(changes[j].category)

\* C27 (as claimed): a run handles the descriptors one after the other in
\* category order: every file operation for skills, then commands, then
\* agents comes before any MCP server document write, and every MCP server
\* write before any hook document write; within a category the descriptors
\* are handled in catalog order.
C27_CatalogOrderWithinCategory ==
    lastOp.op = "run" =>
        LET changes == Changes(lastOp.operations)
        IN  /\ InCategoryOrder(changes)
            /\ \A i, j \in 1..Len(changes) :
                  (i < j /\ changes[i].category = changes[j].category)
                  => IndexOf(before.catalog[changes[i].category], changes[i].name)
                        < IndexOf(before.catalog[changes[j].category], changes[j].name)

\* C27 (amended): a run handles the descriptors one after the other in
\* category order: every file operation for skills, then commands, then
\* agents comes before any MCP server document write, and every MCP server
\* write before any hook document write; within a category the selected
\* descriptors are installed in catalog order and the unselected ones are
\* removed after them.
C27_InstallsThenRemovals ==
    lastOp.op = "run" =>
        LET changes == Changes(lastOp.operations)
        IN  /\ InCategoryOrder(changes)
            /\ \A i, j \in 1..Len(changes) :
                  (i < j /\ changes[i].category = changes[j].category)
                  => /\ changes[i].op = "remove" => changes[j].op = "remove"
                     /\ (changes[i].op = "install" /\ changes[j].op = "install")
                           => IndexOf(before.catalog[changes[i].category], changes[i].name)
                                 < IndexOf(before.catalog[changes[j].category], changes[j].name)

\* a run installed the second command of the catalog, then removed the
\* first, then wrote the MCP server, then the hook
C27_Witness ==
    /\ lastOp.op = "run"
    /\ Changes(lastOp.operations)
          = <<Operation("install", "commands", "cmd2"), Operation("remove", "commands", "cmd"),
              Operation("install", "mcpServers", "srv"), Operation("install", "hooks", "hk")>>
    /\ ~pathExists(targets[<<"commands", "cmd">>])
    /\ pathExists(targets[<<"commands", "cmd2">>])
    /\ hasMcpServer(mcpFile, "srv")
    /\ hasHook(settings, "hk")

\* C28: all planning precedes all side effects: the status of every
\* descriptor is computed and the operator's complete selection, with every
\* missing-environment override decision, is fixed before the first write to
\* a target file, a target document or the tracker.
C28_PlanningBeforeWrites ==
    lastOp.op = "run" =>
        \A i, j \in 1..Len(lastOp.operations) :
            (i < j /\ lastOp.operations[i].op # "prompt")
            => lastOp.operations[j].op # "prompt"

\* the hook's entries are in a document and the tracker has no record of it:
\* what a run leaves that stops between the writes and trackInstall
EntriesWithoutRecord(w, hook) ==
    /\ hasHook(w.settings, hook.name) \/ hasHookCursor(w.cursorHooks, hook.name)
    /\ ~isTracked(w.tracker, hook)

\* no event of the tool's document holds more entries of the hook than the
\* hook's config lists for it
NoDuplicateEntries(hook, tool) ==
    \A e \in DOMAIN hook.config :
        LET mapped == MappedEvent(e, tool)
        IN  (e \in SupportedEvents(hook.config, tool) /\ mapped \in DOMAIN HooksIn(tool))
            => Len(OwnedBy(HooksIn(tool)[mapped], hook.name)) <= Len(hook.config[e])

\* C29: if a run stops after a hook's entries were written to the target
\* documents but before trackInstall recorded it, the next run derives the
\* hook's status from the document and the fingerprints (outdated, not
\* installed and not available), and re-selecting it leaves document and
\* tracker consistent: one owned entry per event and a record holding the
\* current fingerprint.
C29_OutdatedThenConsistent ==
    /\ (/\ lastOp.op = "interrupted"
        /\ lastOp.step = Len(lastOp.tools) + 1
        /\ EntriesWithoutRecord(world, lastOp.selected[lastOp.hook]))
       => getHookStatus(lastOp.selected[lastOp.hook], world, env) = OUTDATED
    /\ lastOp.op = "sync" =>
          \A i \in 1..Len(lastOp.selected) :
             LET hook == lastOp.selected[i]
             IN  EntriesWithoutRecord(before.w, hook) =>
                    /\ \A tool \in Tools : NoDuplicateEntries(hook, tool)
                    /\ \A t \in 1..Len(lastOp.tools) : EntriesWritten(hook, lastOp.tools[t])
                    /\ isTracked(tracker, hook)
                    /\ getTrackedInfo(tracker, hook).hash = computeHash(hook.config)

-----------------------------------------------------------------------------
(* SpecRace: two runs against the same project, each in a trackInstall call
   for a descriptor of its own.  trackInstall awaits readMetadata and then
   writeMetadata, and the runs interleave at these two file operations. *)

\* metadata.components[categoryKey][component.name] = {hash, ...}, on the
\* metadata that the call read
recordInstall(metadata, component, hash) ==
    [metadata EXCEPT ![getCategoryKey(component.category)] =
        PutMember(@, [name |-> component.name, hash |-> hash,
                      sourcePath |-> sourcePathOf(component)])]

\* mutation: the write starts from the file as it is at the time of the write
trackInstallWriteFresh(file, metadata, component, hash) ==
    writeMetadata(recordInstall(readMetadata(file), component, hash))

\* the second half of trackInstall: the metadata read earlier is written
\* over the file, whatever the file holds by now
trackInstallWrite(file, metadata, component, hash) ==
    writeMetadata(recordInstall(metadata, component, hash))

Runs == {1, 2}

\* the descriptor that each run installs, and its fingerprint
RaceComponent(run, category) ==
    [name |-> IF run = 1 THEN "one" ELSE "two", category |-> category]

RaceHash(run) == computeHash(IF run = 1 THEN "v1" ELSE "v2")

\* the tracker before the runs: missing, unparsable, or with an older record
\* of the first run's descriptor
RaceTrackers(category) ==
    {MissingMetadata, CorruptMetadata,
     trackInstall(MissingMetadata, RaceComponent(1, category), computeHash("v0"))}

InitRace ==
    /\ \E categoryOf \in [Runs -> CategorySet] :
          /\ lastOp = [op |-> "race",
                       runs |-> [r \in Runs |->
                                   [pc |-> "start", component |-> RaceComponent(r, categoryOf[r]),
                                    metadata |-> createEmptyMetadata]],
                       order |-> <<>>]
          /\ tracker \in RaceTrackers(categoryOf[1])
    /\ before = NoSnapshot
    /\ settings = NoFile /\ cursorHooks = NoFile /\ mcpFile = NoConfigFile
    /\ targets = <<>> /\ backups = <<>> /\ catalog = <<>> /\ env = <<>>

\* trackInstall of the run, up to the end of readMetadata
TrackRead(run) ==
    /\ lastOp.runs[run].pc = "start"
    /\ lastOp' = [lastOp EXCEPT !.runs[run].pc = "read",
                                !.runs[run].metadata = readMetadata(tracker),
                                !.order = Append(@, <<run, "read">>)]
    /\ UNCHANGED <<settings, cursorHooks, mcpFile, targets, backups, tracker, catalog, env,
                   before>>

\* trackInstall of the run, from the assignment to the end of writeMetadata
TrackWrite(run) ==
    /\ lastOp.runs[run].pc = "read"
    /\ tracker' = trackInstallWrite(tracker, lastOp.runs[run].metadata,
                                    lastOp.runs[run].component, RaceHash(run))
    /\ lastOp' = [lastOp EXCEPT !.runs[run].pc = "done",
                                !.order = Append(@, <<run, "write">>)]
    /\ UNCHANGED <<settings, cursorHooks, mcpFile, targets, backups, catalog, env, before>>

NextRace ==
    \/ \E run \in Runs : TrackRead(run)
    \/ \E run \in Runs : TrackWrite(run)

SpecRace == InitRace /\ [][NextRace]_vars

-----------------------------------------------------------------------------
(* Properties of two interleaved runs (SpecRace) *)

\* the place of the run's read or write among the file operations
PlaceOf(run, operation) ==
    CHOOSE i \in 1..Len(lastOp.order) : lastOp.order[i] = <<run, operation>>

\* the tracker holds the record that the run's trackInstall wrote
HoldsRecordOf(run) ==
    /\ isTracked(tracker, lastOp.runs[run].component)
    /\ getTrackedInfo(tracker, lastOp.runs[run].component).hash = RaceHash(run)

\* C30: with two runs interleaved at the file reads and writes, a lost
\* update on the tracker is reachable: when both trackInstall calls, for
\* different descriptors, have completed, the tracker holds the record of
\* the run that wrote last, and it lacks the record of the other run exactly
\* when the last writer had read the document before the other run wrote
\* it: the whole document is rewritten from what was read, without a lock or
\* a version check.
C30_LostUpdateByStaleRead ==
    (\A run \in Runs : lastOp.runs[run].pc = "done") =>
        \A last, other \in Runs :
            (last # other /\ PlaceOf(other, "write") < PlaceOf(last, "write"))
            => /\ HoldsRecordOf(last)
               /\ ~HoldsRecordOf(other) <=> PlaceOf(last, "read") < PlaceOf(other, "write")

\* both calls have completed and the tracker, a well-formed document, lacks
\* the record of the first run
C30_Witness ==
    /\ \A run \in Runs : lastOp.runs[run].pc = "done"
    /\ tracker.state = "ok"
    /\ HoldsRecordOf(2)
    /\ ~HoldsRecordOf(1)

-----------------------------------------------------------------------------
(* Properties of the tracker within one call of syncHooks (SpecSync) *)

\* C31: within a run no tracker update is lost: after syncHooks returns,
\* called with the tracker's hooks as trackedHooks, the hooks category of
\* the tracker holds exactly the selected hook names, each with the
\* fingerprint of its current config; every read-modify-write of the tracker
\* completes before the next begins.
C31_TrackerHoldsSelection ==
    lastOp.op = "sync" =>
        /\ Names(getTrackedComponents(tracker, "hooks")) = Names(lastOp.selected)
        /\ \A i \in 1..Len(lastOp.selected) :
              getTrackedInfo(tracker, lastOp.selected[i]).hash
                 = computeHash(lastOp.selected[i].config)
        /\ \A n \in Names(lastOp.selected) :
              Len(SelectSeq(getTrackedComponents(tracker, "hooks"),
                            LAMBDA m : m.name = n)) = 1

\* one call tracked hookA and untracked hookB, two read-modify-writes of
\* the tracker one after the other
C31_Witness ==
    /\ lastOp.op = "sync"
    /\ Names(getTrackedComponents(before.w.tracker, "hooks")) = {"hookB"}
    /\ Names(lastOp.selected) = {"hookA"}
    /\ Names(getTrackedComponents(tracker, "hooks")) = {"hookA"}

-----------------------------------------------------------------------------
(* SpecTrack: calls of trackInstall and trackUninstall, one after the other,
   on a tracker file that starts missing or unparsable *)

\* descriptors of two names in two categories: a name is unique within its
\* category and may be used in both
TrackComponents ==
    {[name |-> n, category |-> c] : n \in {"x", "y"}, c \in {"skills", "hooks"}}

\* fingerprints: of two contents, and the null of a directory
TrackHashes == {computeHash("v1"), computeHash("v2"), Null}

InitTrack ==
    /\ tracker \in {MissingMetadata, CorruptMetadata}
    /\ lastOp = [op |-> "init"]
    /\ before = NoSnapshot
    /\ settings = NoFile /\ cursorHooks = NoFile /\ mcpFile = NoConfigFile
    /\ targets = <<>> /\ backups = <<>> /\ catalog = <<>> /\ env = <<>>

TrackInstall(component, hash) ==
    /\ tracker' = trackInstall(tracker, component, hash)
    /\ lastOp' = [op |-> "trackInstall", component |-> component, hash |-> hash]
    /\ before' = [op |-> "tracker", tracker |-> tracker]
    /\ UNCHANGED <<settings, cursorHooks, mcpFile, targets, backups, catalog, env>>

TrackUninstall(component) ==
    /\ tracker' = trackUninstall(tracker, component)
    /\ lastOp' = [op |-> "trackUninstall", component |-> component, hash |-> Null]
    /\ before' = [op |-> "tracker", tracker |-> tracker]
    /\ UNCHANGED <<settings, cursorHooks, mcpFile, targets, backups, catalog, env>>

NextTrack ==
    \/ \E component \in TrackComponents, hash \in TrackHashes : TrackInstall(component, hash)
    \/ \E component \in TrackComponents : TrackUninstall(component)

SpecTrack == InitTrack /\ [][NextTrack]_vars

-----------------------------------------------------------------------------
(* Properties of the tracker (SpecTrack) *)

\* the records of the category other than the one of this name, in order
OtherRecords(file, category, name) ==
    SelectSeq(getTrackedComponents(file, category), LAMBDA m : m.name # name)

\* C32: trackInstall and trackUninstall for (category, name) change only
\* that record: every other record of the category and every record of the
\* other categories, also one of the same name, is unchanged;
\* getTrackedInfo returns the recorded hash after trackInstall and nothing
\* after trackUninstall, and trackUninstall of an untracked descriptor
\* changes no record.
C32_OneRecordChanges ==
    lastOp.op \in {"trackInstall", "trackUninstall"} =>
        LET component == lastOp.component
        IN  /\ \A category \in DOMAIN createEmptyMetadata :
                  IF category = component.category
                  THEN OtherRecords(tracker, category, component.name)
                          = OtherRecords(before.tracker, category, component.name)
                  ELSE getTrackedComponents(tracker, category)
                          = getTrackedComponents(before.tracker, category)
            /\ lastOp.op = "trackInstall"
                  => /\ isTracked(tracker, component)
                     /\ getTrackedInfo(tracker, component).hash = lastOp.hash
            /\ lastOp.op = "trackUninstall"
                  => /\ ~isTracked(tracker, component)
                     /\ ~isTracked(before.tracker, component)
                           => readMetadata(tracker) = readMetadata(before.tracker)

\* the record of skill x was removed while hook x and skill y were tracked
C32_Witness ==
    /\ lastOp.op = "trackUninstall"
    /\ lastOp.component = [name |-> "x", category |-> "skills"]
    /\ isTracked(before.tracker, lastOp.component)
    /\ isTracked(tracker, [name |-> "x", category |-> "hooks"])
    /\ isTracked(tracker, [name |-> "y", category |-> "skills"])

-----------------------------------------------------------------------------
(* SpecMcp: calls of addMcpServer and removeMcpServer, of the CLI's merger
   and of the resolver's, one after the other on one MCP document *)

McpServerNames == {"srv", "mine", "dep"}

McpServerConfigs == {<<<<"command", "a">>>>, <<<<"command", "b">>>>}

\* the document before the first call: missing, unparsable, the operator's
\* with a server and a key of their own, or with that key only
McpInitFiles ==
    {NoConfigFile, UnparsableFile} \cup UserConfigFiles
        \cup {writeJsonFile([mcpServers |-> Absent, other |-> Present("user")])}

InitMcp ==
    /\ mcpFile \in McpInitFiles
    /\ lastOp = [op |-> "init"]
    /\ before = NoSnapshot
    /\ settings = NoFile /\ cursorHooks = NoFile /\ tracker = MissingMetadata
    /\ targets = <<>> /\ backups = <<>> /\ catalog = <<>> /\ env = <<>>

McpCall(op, serverName, serverConfig, written) ==
    /\ mcpFile' = written
    /\ lastOp' = [op |-> op, serverName |-> serverName, serverConfig |-> serverConfig]
    /\ before' = [op |-> "mcp", mcpFile |-> mcpFile]
    /\ UNCHANGED <<settings, cursorHooks, tracker, targets, backups, catalog, env>>

AddMcpServer(serverName, serverConfig) ==
    McpCall("add", serverName, serverConfig,
            addMcpServer(mcpFile, serverName, serverConfig))

RemoveMcpServer(serverName) ==
    McpCall("remove", serverName, <<>>, removeMcpServer(mcpFile, serverName))

AddMcpServerResolver(serverName, serverConfig) ==
    McpCall("add", serverName, serverConfig,
            addMcpServerResolver(mcpFile, serverName, serverConfig))

RemoveMcpServerResolver(serverName) ==
    McpCall("remove", serverName, <<>>, removeMcpServerResolver(mcpFile, serverName))

NextMcp ==
    \/ \E serverName \in McpServerNames, serverConfig \in McpServerConfigs :
          AddMcpServer(serverName, serverConfig)
    \/ \E serverName \in McpServerNames : RemoveMcpServer(serverName)
    \/ \E serverName \in McpServerNames, serverConfig \in McpServerConfigs :
          AddMcpServerResolver(serverName, serverConfig)
    \/ \E serverName \in McpServerNames : RemoveMcpServerResolver(serverName)

SpecMcp == InitMcp /\ [][NextMcp]_vars

-----------------------------------------------------------------------------
(* Properties of the MCP document (SpecMcp) *)

\* the entries of the servers other than this one, in order
OtherServers(file, serverName) ==
    SelectSeq(getMcpServers(file), LAMBDA m : m.name # serverName)

\* C33: after addMcpServer(file, S, cfg) getMcpServer returns cfg and after
\* removeMcpServer(file, S) it returns null; the entry of every other
\* server and every other top-level key are unchanged; adding the same
\* server with the same config a second time leaves what the first left.
C33_OneServerChanges ==
    lastOp.op \in {"add", "remove"} =>
        /\ OtherServers(mcpFile, lastOp.serverName)
              = OtherServers(before.mcpFile, lastOp.serverName)
        /\ readConfigFile(mcpFile).other = readConfigFile(before.mcpFile).other
        /\ lastOp.op = "add" =>
              /\ hasMcpServer(mcpFile, lastOp.serverName)
              /\ getMcpServer(mcpFile, lastOp.serverName) = lastOp.serverConfig
              /\ getMcpServerResolver(mcpFile, lastOp.serverName)
                    = Present(lastOp.serverConfig)
              /\ addMcpServer(mcpFile, lastOp.serverName, lastOp.serverConfig) = mcpFile
              /\ addMcpServerResolver(mcpFile, lastOp.serverName, lastOp.serverConfig)
                    = mcpFile
        /\ lastOp.op = "remove" =>
              /\ ~hasMcpServer(mcpFile, lastOp.serverName)
              /\ getMcpServerResolver(mcpFile, lastOp.serverName) = Absent

\* a third server was added to a document that held two and a key of the
\* operator's
C33_Witness ==
    /\ lastOp.op = "add"
    /\ lastOp.serverName = "dep"
    /\ Names(getMcpServers(before.mcpFile)) = {"srv", "mine"}
    /\ Names(getMcpServers(mcpFile)) = {"srv", "mine", "dep"}
    /\ readConfigFile(mcpFile).other = Present("user")

-----------------------------------------------------------------------------
(* Properties of removal from one document (SpecMerge) *)

\* C34: removeHook and removeHookCursor for owner X change nothing but the
\* X-owned entries and the event arrays their removal empties: an event
\* array that was empty before the call and every other top-level key are
\* left as they were, and a document without a hooks key is not written.
C34_RemoveFrame ==
    lastOp.op = "remove" =>
        LET old == readJsonFile(before)
            new == readJsonFile(TargetDoc)
            rest(e) == SelectSeq(Get(old.hooks)[e], LAMBDA h : h.hands # lastOp.name)
        IN  /\ new.other = old.other
            /\ new.version = old.version
            /\ ~Has(old.hooks) => TargetDoc = before
            /\ Has(old.hooks) =>
                  /\ Has(new.hooks)
                  /\ DOMAIN Get(new.hooks) \subseteq DOMAIN Get(old.hooks)
                  /\ \A e \in DOMAIN Get(old.hooks) :
                        IF Get(old.hooks)[e] = <<>> \/ rest(e) # <<>>
                        THEN e \in DOMAIN Get(new.hooks) /\ Get(new.hooks)[e] = rest(e)
                        ELSE e \notin DOMAIN Get(new.hooks)

-----------------------------------------------------------------------------
(* Properties of a merge into one document (SpecMerge) *)

\* C35: after mergeHook or mergeHookCursor has merged a translated config
\* for owner X, every entry of that config is in the document under its
\* event with the marker X, also when an event has two or more entries.
C35_EveryEntryPresent ==
    lastOp.op = "merge" =>
        LET hooks == Get(readJsonFile(TargetDoc).hooks)
        IN  \A e \in DOMAIN lastOp.config :
                /\ e \in DOMAIN hooks
                /\ \A i \in 1..Len(lastOp.config[e]) :
                      \E j \in 1..Len(hooks[e]) :
                          hooks[e][j] = [lastOp.config[e][i] EXCEPT !.hands = lastOp.name]

-----------------------------------------------------------------------------
(* SpecUpdate: calls of the multi-tool syncHooks between which the config
   of hookA is edited in the catalog *)

\* the configs hookA goes through: one entry under stop and one under
\* notification, or the one under notification only
UpdateConfigs ==
    {[e \in events |-> <<[matcher |-> "Bash", command |-> "c1"]>>] :
        events \in {{"notification"}, {"stop", "notification"}}}

InitUpdate ==
    /\ \E configA \in UpdateConfigs : catalog = HookCatalog(configA)
    /\ \/ settings = NoFile /\ cursorHooks = NoFile
       \/ settings \in UserSettingsFiles /\ cursorHooks \in UserCursorFiles
    /\ tracker = MissingMetadata
    /\ mcpFile = NoConfigFile
    /\ targets = [path \in TargetPaths |-> AbsentPath]
    /\ backups = [path \in TargetPaths |-> AbsentPath]
    /\ env = [v \in EnvNames |-> NoKey]
    /\ lastOp = [op |-> "init"]
    /\ before = NoSnapshot

\* the catalog's hooks.json is edited: hookA gets another config
HookConfigChange(configA) ==
    /\ lastOp.op = "sync"
    /\ catalog # HookCatalog(configA)
    /\ catalog' = HookCatalog(configA)
    /\ lastOp' = [op |-> "edit"]
    /\ before' = NoSnapshot
    /\ UNCHANGED <<settings, cursorHooks, tracker, mcpFile, targets, backups, env>>

NextUpdate ==
    \/ \E selectedNames \in SUBSET Names(catalog.hooks) : \E tools \in DetectedTools :
          SyncHooks(selectedNames, tools)
    \/ \E configA \in UpdateConfigs : HookConfigChange(configA)

SpecUpdate == InitUpdate /\ [][NextUpdate]_vars

-----------------------------------------------------------------------------
(* Properties of an update by syncHooks (SpecUpdate) *)

\* the hook's config in the tool's format
Translated(hook, tool) ==
    IF tool = "cursor" THEN toCursor(hook.config) ELSE toClaudeCode(hook.config)

\* the hook's entries in the tool's document are those of its config and no
\* others
ExactlyDerived(hook, tool) ==
    LET derived == Translated(hook, tool)
        hooks   == HooksIn(tool)
    IN  /\ \A e \in DOMAIN derived :
              derived[e] # <<>> => e \in DOMAIN hooks
        /\ \A e \in DOMAIN hooks :
              OwnedBy(hooks[e], hook.name)
                 = IF e \in DOMAIN derived
                   THEN [i \in 1..Len(derived[e]) |->
                            [derived[e][i] EXCEPT !.hands = hook.name]]
                   ELSE <<>>

\* the tracker held the hook with the hash of another config before the call
UpdatedBySync(hook) ==
    /\ isTracked(before.w.tracker, hook)
    /\ getTrackedInfo(before.w.tracker, hook).hash # computeHash(hook.config)

\* C36: after syncHooks has updated hook H from config C1 to config C2, the
\* H-owned entries in the document of each detected tool are exactly those
\* derived from C2: under an event that C1 had and C2 no longer has, no
\* H-owned entry is left.
C36_UpdateLeavesNewConfigOnly ==
    lastOp.op = "sync" =>
        \A i \in 1..Len(lastOp.selected) :
            UpdatedBySync(lastOp.selected[i]) =>
                \A j \in 1..Len(lastOp.tools) :
                    ExactlyDerived(lastOp.selected[i], lastOp.tools[j])

-----------------------------------------------------------------------------
(* Properties of a repeated call of syncHooks (SpecSync) *)

\* syncHooks called once more with the selection and the tools of the last
\* call and the tracker as that call left it
SyncAgain ==
    syncHooks(world, lastOp.selected, getTrackedComponents(tracker, "hooks"), lastOp.tools)

\* C37: a second syncHooks with the same selection, configs and tools and
\* the tracker as the first left it reports nothing added, updated or
\* removed and leaves every tool document unchanged, also when no tool is
\* detected or none of a hook's events is supported.
C37_SecondSyncChangesNothing ==
    lastOp.op = "sync" =>
        \E again \in {SyncAgain} :
            /\ again.result = NoResult
            /\ again.w.settings = settings
            /\ again.w.cursorHooks = cursorHooks

\* the hook's name is in the list
Reported(list, hook) == \E k \in 1..Len(list) : list[k] = hook.name

\* the call wrote an entry owned by the hook into the document of a detected
\* tool that held none before
NewlyWritten(hook) ==
    \E j \in 1..Len(lastOp.tools) :
        /\ HasHookIn(lastOp.tools[j], hook.name)
        /\ ~hasHookAny(before.w, hook.name, <<lastOp.tools[j]>>)

\* C38: every selected hook that syncHooks newly writes into a tool document
\* that held no entry owned by it before (a tool detected for the first
\* time, a hook in the document and not in the tracker) is reported in
\* added or in updated, and no hook is reported in both.
C38_NewlyWrittenIsReported ==
    lastOp.op = "sync" =>
        \A i \in 1..Len(lastOp.selected) :
            /\ NewlyWritten(lastOp.selected[i])
                  => \/ Reported(lastOp.result.added, lastOp.selected[i])
                     \/ Reported(lastOp.result.updated, lastOp.selected[i])
            /\ ~ /\ Reported(lastOp.result.added, lastOp.selected[i])
                 /\ Reported(lastOp.result.updated, lastOp.selected[i])

-----------------------------------------------------------------------------
(* Properties of a declined override (Spec) *)

\* a project whose documents hold no entry
NoEntries == [settings |-> NoFile, mcpFile |-> NoConfigFile]

\* C39: when the operator declines the missing-environment override for an
\* MCP server or hook that is installed and tracked, the run leaves its
\* document entry and its tracker record as they were: declining skips the
\* (re)install and never removes.
C39_DeclineKeepsInstalled ==
    lastOp.op = "run" =>
        \A category \in {"mcpServers", "hooks"} :
            \A i \in 1..Len(before.catalog[category]) :
                LET component == before.catalog[category][i]
                IN  (/\ <<category, component.name>> \in lastOp.selected
                     /\ ~validateComponentEnvVars(component, before.env).isValid
                     /\ component.name \notin lastOp.proceed
                     /\ isTracked(before.w.tracker, component)
                     /\ EntryOf(before.w, component) # EntryOf(NoEntries, component))
                    => /\ isTracked(tracker, component)
                       /\ getTrackedInfo(tracker, component)
                             = getTrackedInfo(before.w.tracker, component)
                       /\ EntryOf(world, component) = EntryOf(before.w, component)

-----------------------------------------------------------------------------
(* Properties of the removal of files (Spec) *)

\* C40: a run deletes the target of a skill, command or agent only when the
\* tracker holds an installed record of it: a file of the operator's own at
\* the target path, without record, is still there after a run that leaves
\* the component unselected.
C40_DeleteOnlyRecorded ==
    lastOp.op = "run" =>
        \A category \in {"skills", "commands", "agents"} :
            \A i \in 1..Len(before.catalog[category]) :
                LET component == before.catalog[category][i]
                    path      == targetPathOf(component)
                IN  (/\ <<category, component.name>> \notin lastOp.selected
                     /\ pathExists(before.w.targets[path])
                     /\ ~isTracked(before.w.tracker, component))
                    => targets[path] = before.w.targets[path]

====
